---- MODULE Spec2Model ----
(***************************************************************************)
(* A model of ark-isep: the positions argument between two committed       *)
(* arrays (public parameters, witness, statement, prove, verify).          *)
(*                                                                         *)
(* The algebraic backend is modelled exactly, over a small field: the      *)
(* scalar field is F_P with P = 2^TWO_ADICITY + 1, a group element is its  *)
(* discrete logarithm to the group's generator (so [s]G is s, point        *)
(* addition is addition mod P), and the pairing of a and b is a*b mod P.   *)
(* Polynomials are their coefficient sequences, lowest degree first.       *)
(***************************************************************************)
EXTENDS Integers, Sequences, FiniteSets, TLC

VARIABLES pc, builder, public_parameters, values, the_witness, the_statement, proved,
          handed, verified, calls, kzg, domain_call, transcripts

vars == <<pc, builder, public_parameters, values, the_witness, the_statement, proved,
          handed, verified, calls, kzg, domain_call, transcripts>>

\* ------------------------------------------------------------------------
\* Scalar field (ark_ff::Field, ark_ff::FftField)
\* ------------------------------------------------------------------------

TWO_ADICITY == 4

P == 2^TWO_ADICITY + 1

GENERATOR == 3

Fr == 0 .. (P - 1)

\* Option<T>: None is the empty sequence, Some(x) the sequence of x alone.
None == << >>

Some(x) == <<x>>

is_none(o) == Len(o) = 0

is_some(o) == Len(o) = 1

unwrap(o) == o[1]

add(a, b) == (a + b) % P

sub(a, b) == (a + P - b) % P

mul(a, b) == (a * b) % P

neg(a) == (P - a) % P

RECURSIVE pow(_, _)
\* Field::pow: square and multiply
pow(a, e) ==
    IF e = 0 THEN 1
    ELSE IF e % 2 = 0 THEN pow(mul(a, a), e \div 2)
    ELSE mul(a, pow(mul(a, a), e \div 2))

\* Field::inverse: None for zero, the inverse otherwise.
inverse(a) == IF a = 0 THEN None ELSE Some(pow(a, P - 2))

\* F::from(n as u64)
from_u64(n) == n % P

RECURSIVE is_power_of_two(_)
is_power_of_two(n) ==
    IF n = 0 THEN FALSE
    ELSE IF n = 1 THEN TRUE
    ELSE IF n % 2 = 1 THEN FALSE
    ELSE is_power_of_two(n \div 2)

RECURSIVE trailing_zeros(_)
trailing_zeros(n) == IF n % 2 = 1 THEN 0 ELSE 1 + trailing_zeros(n \div 2)

max(a, b) == IF a >= b THEN a ELSE b

min(a, b) == IF a <= b THEN a ELSE b

\* F::get_root_of_unity(n) for a power of two n within the two-adicity:
\* the two-adic root of unity GENERATOR^((P-1)/2^TWO_ADICITY), squared
\* TWO_ADICITY - log2(n) times.
get_root_of_unity(n) == pow(GENERATOR, (P - 1) \div n)

\* ------------------------------------------------------------------------
\* Vectors and polynomials (Vec<F>, ark_poly::DensePolynomial)
\* ------------------------------------------------------------------------

\* Iterator::collect into a Vec: the entries, computed
collect(f) == f \o << >>

\* vec![zero; n]
zeros(n) == collect([k \in 1 .. n |-> 0])

\* Vec::resize(n, zero)
resize(v, n) == collect([k \in 1 .. n |-> IF k <= Len(v) THEN v[k] ELSE 0])

RECURSIVE sum_to(_, _)
\* the sum over k in 1..n of f[k], in the field
sum_to(f, n) == IF n = 0 THEN 0 ELSE add(f[n], sum_to(f, n - 1))

RECURSIVE from_coefficients_vec(_)
\* DensePolynomial::from_coefficients_vec: trailing zero coefficients dropped
from_coefficients_vec(c) ==
    IF Len(c) = 0 THEN << >>
    ELSE IF c[Len(c)] = 0 THEN from_coefficients_vec(SubSeq(c, 1, Len(c) - 1))
    ELSE collect(c)

\* DensePolynomial::degree: 0 for the zero polynomial
degree(p) == IF Len(p) = 0 THEN 0 ELSE Len(p) - 1

\* Polynomial::evaluate
evaluate(p, x) == sum_to(collect([k \in 1 .. Len(p) |-> mul(p[k], pow(x, k - 1))]), Len(p))

\* p_i * fr (polynomial times scalar)
poly_scale(p, s) == from_coefficients_vec(collect([k \in 1 .. Len(p) |-> mul(p[k], s)]))

\* a + b (polynomial addition)
poly_add(a, b) ==
    from_coefficients_vec(
        collect([k \in 1 .. max(Len(a), Len(b)) |->
            add(IF k <= Len(a) THEN a[k] ELSE 0, IF k <= Len(b) THEN b[k] ELSE 0)]))

RECURSIVE quotient_coeff(_, _, _)
\* coefficient k (1-based) of the quotient of p by (X - z): synthetic division
quotient_coeff(p, z, k) ==
    IF k >= Len(p) THEN 0
    ELSE add(p[k + 1], mul(z, quotient_coeff(p, z, k + 1)))

\* poly / (X - z): the quotient, the remainder dropped
divide_by_linear(p, z) ==
    IF Len(p) <= 1 THEN << >>
    ELSE from_coefficients_vec(collect([k \in 1 .. Len(p) - 1 |-> quotient_coeff(p, z, k)]))

\* ------------------------------------------------------------------------
\* Evaluation domains (ark_poly::Radix2EvaluationDomain, src/src/domain.rs)
\* ------------------------------------------------------------------------

\* The Radix2EvaluationDomain struct as domain.rs lines 32-42 fill it.
Radix2EvaluationDomain(size, group_gen, size_inv, group_gen_inv) ==
    [ size |-> size,
      log_size_of_group |-> trailing_zeros(size),
      size_as_field_element |-> from_u64(size),
      size_inv |-> size_inv,
      group_gen |-> group_gen,
      group_gen_inv |-> group_gen_inv,
      offset |-> 1,
      offset_inv |-> 1,
      offset_pow_size |-> 1 ]

\* Radix2EvaluationDomain::new(size) for a power of two: None beyond the
\* two-adicity, else the domain of the size-th root of unity.
Radix2EvaluationDomain_new(size) ==
    IF trailing_zeros(size) > TWO_ADICITY THEN None
    ELSE LET g == get_root_of_unity(size)
         IN  Some(Radix2EvaluationDomain(size, g, unwrap(inverse(from_u64(size))),
                                         unwrap(inverse(g))))

\* create_domain_with_generator: a result, Ok with the domain or Err.
create_domain_with_generator(group_gen, size) ==
    IF ~is_power_of_two(size)
    THEN [tag |-> "Err", err |-> "InvalidEvaluationDomainSize"]
    ELSE IF trailing_zeros(size) > TWO_ADICITY
    THEN [tag |-> "Err", err |-> "InvalidEvaluationDomainSize"]
    ELSE IF is_none(inverse(from_u64(size)))
    THEN [tag |-> "Err", err |-> "FailedToInverseFieldElement"]
    ELSE IF is_none(inverse(group_gen))
    THEN [tag |-> "Err", err |-> "FailedToInverseFieldElement"]
    ELSE [tag |-> "Ok",
          domain |-> Radix2EvaluationDomain(size, group_gen,
                         unwrap(inverse(from_u64(size))), unwrap(inverse(group_gen)))]

\* EvaluationDomain::get_coset(offset), as lib.rs uses it with Fr::GENERATOR
get_coset(domain, offset) ==
    [domain EXCEPT !.offset = offset,
                   !.offset_inv = unwrap(inverse(offset)),
                   !.offset_pow_size = pow(offset, domain.size)]

\* EvaluationDomain::element(j), j from 0
element(domain, j) == mul(domain.offset, pow(domain.group_gen, j))

\* roots_of_unity starting at the domain's generator in place of its offset
roots_of_unity_from_generator(domain) == collect([k \in 1 .. domain.size |-> element(domain, k)])

\* roots_of_unity: domain.elements().collect(); entry j+1 is element j
roots_of_unity(domain) == collect([k \in 1 .. domain.size |-> element(domain, k - 1)])

\* EvaluationDomain::fft: the coefficient vector resized to the domain's
\* size, evaluated on every element of the domain in order.
fft(domain, coeffs) ==
    LET c == resize(coeffs, domain.size)
    IN  collect([j \in 1 .. domain.size |-> evaluate(c, element(domain, j - 1))])

\* EvaluationDomain::ifft: the evaluation vector resized to the domain's
\* size, inverse transform, then the coset's offset divided out.
ifft(domain, evals) ==
    LET n == domain.size
        e == resize(evals, n)
    IN  collect([k \in 1 .. n |->
            mul(pow(domain.offset_inv, k - 1),
                mul(domain.size_inv,
                    sum_to([j \in 1 .. n |->
                               mul(e[j], pow(domain.group_gen_inv, (j - 1) * (k - 1)))],
                           n)))])

\* divide_by_vanishing_poly_on_coset_in_place: every entry times the inverse
\* of the vanishing polynomial's value on the coset of GENERATOR, g^N - 1.
divide_by_vanishing_poly_on_coset_in_place(domain, v) ==
    LET z == sub(pow(GENERATOR, domain.size), 1)
    IN  IF is_none(inverse(z))
        THEN [tag |-> "Err", err |-> "FailedToInverseFieldElement"]
        ELSE [tag |-> "Ok", vec |-> collect([k \in 1 .. Len(v) |-> mul(v[k], unwrap(inverse(z)))])]

\* ------------------------------------------------------------------------
\* KZG (src/src/kzg.rs)
\* ------------------------------------------------------------------------

\* the check at the head of Kzg::commit that panics
commit_panics(affine_srs, poly) == Len(affine_srs) - 1 < degree(poly)

\* VariableBaseMSM::msm_unchecked(affine_srs, coeffs): the sum of
\* coeff_k * srs[k] over the shorter of the two lengths
msm_unchecked(bases, scalars) ==
    LET n == min(Len(bases), Len(scalars))
    IN  sum_to(collect([k \in 1 .. n |-> mul(scalars[k], bases[k])]), n)

\* Kzg::commit where it does not panic
commit(affine_srs, poly) == msm_unchecked(affine_srs, poly)

CHUNK_SIZE == 1024

\* powers_of_scalars: chunk by chunk, each chunk from s^start_power
powers_of_scalars(s, size) ==
    LET num_chunks == (size + CHUNK_SIZE - 1) \div CHUNK_SIZE
        chunk(c) == collect([k \in 1 .. min(CHUNK_SIZE, size - c * CHUNK_SIZE) |->
                        mul(pow(s, c * CHUNK_SIZE), pow(s, k - 1))])
        result == collect([k \in 1 .. size |-> chunk((k - 1) \div CHUNK_SIZE)[((k - 1) % CHUNK_SIZE) + 1]])
    IN  IF num_chunks = 0 THEN << >> ELSE SubSeq(result, 1, size)

\* srs without the cut at max_power + 1
srs_untruncated(powers_of_tau, max_power) == powers_of_tau

\* srs: the first max_power + 1 powers, each times the group's generator
srs(powers_of_tau, max_power) ==
    collect([k \in 1 .. min(max_power + 1, Len(powers_of_tau)) |-> mul(1, powers_of_tau[k])])

\* unsafe_setup_from_tau: (g1_srs, g2_srs)
unsafe_setup_from_tau(max_power_g1, tau) ==
    LET max_power_g2 == max_power_g1 + 1
        powers_of_tau_size == max_power_g2 + 1
        powers_of_tau == powers_of_scalars(tau, powers_of_tau_size)
    IN  << srs(powers_of_tau, max_power_g1), srs(powers_of_tau, max_power_g2) >>

RECURSIVE batched_poly(_, _, _)
\* the sum over k <= n of poly_list[k] * powers[k]
batched_poly(poly_list, powers, n) ==
    IF n = 0 THEN << >>
    ELSE poly_add(batched_poly(poly_list, powers, n - 1),
                  poly_scale(poly_list[n], powers[n]))

\* Kzg::batch_open where it does not panic: poly_list[0] plus the rest, each
\* times its power of fr_separation, divided by (X - fr_opening), committed.
batch_open(affine_srs, poly_list, fr_opening, fr_separation) ==
    LET num_polys == Len(poly_list)
        powers_of_sep == powers_of_scalars(fr_separation, num_polys)
        rest_batched == batched_poly(poly_list, collect([k \in 1 .. num_polys |->
                                         IF k = 1 THEN 0 ELSE powers_of_sep[k]]), num_polys)
        batched == poly_add(poly_list[1], rest_batched)
        q == divide_by_linear(batched, fr_opening)
    IN  commit(affine_srs, q)

\* P::pairing on discrete logarithms
pairing(a, b) == mul(a, b)

\* ------------------------------------------------------------------------
\* Hashing and the Fiat-Shamir transcript (blake2, merlin,
\* src/src/transcript.rs).  A digest is a number below HashSpace; every
\* absorbed number changes it.
\* ------------------------------------------------------------------------

HashSpace == 2^16 + 1

digest_step(h, x) == (h * 31 + x + 1) % HashSpace

RECURSIVE digest_range(_, _, _, _)
\* the digest h after absorbing entries lo .. hi of xs in order: the first
\* half absorbed, then the second half into the digest v that gives
digest_range(h, xs, lo, hi) ==
    IF lo > hi THEN h
    ELSE IF lo = hi THEN digest_step(h, xs[lo])
    ELSE CHOOSE r \in {digest_range(v, xs, (lo + hi) \div 2 + 1, hi) :
                          v \in {digest_range(h, xs, lo, (lo + hi) \div 2)}} : TRUE

digest(h, xs) == digest_range(h, xs, 1, Len(xs))

\* Blake2b512::new(); update(buf); finalize()
blake2b(buf) == digest(0, buf)

\* CanonicalSerialize of a vector: its length, then its entries
serialize_vec(v) == <<Len(v)>> \o v

\* Label::as_bytes, by variant.  G1L and G1R are the names prover.rs gives
\* the variants G2L and G2R, the labels of the commitments to L and R.
Label ==
    [ ChallengeBeta |-> "beta",
      ChallengeGamma |-> "gamma",
      ChallengeDelta |-> "delta",
      ChallengeEpsilon |-> "epsilon",
      ChallengeZeta |-> "zeta",
      PublicParameters |-> "common_inputs",
      Statement |-> "statement",
      G1L |-> "g2_l",
      G1R |-> "g2_r",
      G2L |-> "g2_l",
      G2R |-> "g2_r",
      G1Ql |-> "g1_ql",
      G1Qr |-> "g1_qr",
      G1BatchProofAtRandPoint |-> "g1_batch_proof_at_rand_point",
      FrLAtZero |-> "fr_l_at_zero",
      FrRAtZero |-> "fr_r_at_zero",
      FrLAtDelta |-> "fr_l_at_delta",
      FrRAtDelta |-> "fr_r_at_delta",
      FrLvAtDelta |-> "fr_ql_at_delta",
      FrRvAtDelta |-> "fr_qr_at_delta",
      FrPlAtDelta |-> "fr_pl_at_delta",
      FrPrAtDelta |-> "fr_pr_at_delta",
      FrPmAtDelta |-> "fr_pm_at_delta" ]

LabelBytes ==
    << "beta", "gamma", "delta", "epsilon", "zeta", "common_inputs", "statement",
       "g2_l", "g2_r", "g1_ql", "g1_qr",
       "g1_batch_proof_at_rand_point", "fr_l_at_zero", "fr_r_at_zero",
       "fr_l_at_delta", "fr_r_at_delta", "fr_ql_at_delta", "fr_qr_at_delta",
       "fr_pl_at_delta", "fr_pr_at_delta", "fr_pm_at_delta" >>

\* the label's bytes as one number
label_code(bytes) == CHOOSE k \in 1 .. Len(LabelBytes) : LabelBytes[k] = bytes

ChallengeLabels == {"beta", "gamma", "delta", "epsilon", "zeta"}

\* A transcript is merlin's running state and, beside it, the operations
\* applied so far: [op, label, data].
\* Transcript::new: MerlinTranscript::new(b"Init SegLookup Transcript")
Transcript_new == [state |-> digest_step(0, 0), ops |-> << >>]

\* MerlinTranscript::append_message(label, bytes)
append_message(t, label, value) ==
    [ state |-> digest(t.state, <<1, label_code(label), value>>),
      ops |-> Append(t.ops, [op |-> "append", label |-> label, data |-> <<value>>]) ]

\* MerlinTranscript::challenge_bytes(label, dest): the state absorbs the
\* request, the bytes drawn are a function of the new state
challenge_bytes(t, label) ==
    LET s == digest(t.state, <<2, label_code(label)>>)
    IN  [ transcript |->
              [ state |-> s,
                ops |-> Append(t.ops, [op |-> "challenge", label |-> label, data |-> << >>]) ],
          bytes |-> s ]

\* Transcript::append_element: the element serialized, then appended
append_element(t, label, elem) == append_message(t, label, elem)

RECURSIVE append_elements_range(_, _, _, _)
\* append_element on pairs lo .. hi in order: the first half appended, then
\* the second half to the transcript v that gives
append_elements_range(t, labels_and_elements, lo, hi) ==
    IF lo > hi THEN t
    ELSE IF lo = hi
    THEN append_element(t, labels_and_elements[lo][1], labels_and_elements[lo][2])
    ELSE CHOOSE r \in {append_elements_range(v, labels_and_elements, (lo + hi) \div 2 + 1, hi) :
                          v \in {append_elements_range(t, labels_and_elements,
                                                       lo, (lo + hi) \div 2)}} : TRUE

\* Transcript::append_elements: append_element on each pair in order
append_elements(t, labels_and_elements) ==
    append_elements_range(t, labels_and_elements, 1, Len(labels_and_elements))

\* squeeze_challenge without the append of the challenge it derived
squeeze_challenge_unappended(t, label) == [transcript |-> challenge_bytes(t, label).transcript, challenge |-> challenge_bytes(t, label).bytes % P]

\* Transcript::squeeze_challenge: 64 bytes drawn, reduced mod the field
\* order, the challenge appended under the same label
squeeze_challenge(t, label) ==
    LET c == challenge_bytes(t, label)
        challenge == c.bytes % P
    IN  [transcript |-> append_element(c.transcript, label, challenge),
         challenge |-> challenge]

\* ------------------------------------------------------------------------
\* Public parameters (src/src/public_parameters.rs)
\* ------------------------------------------------------------------------

Err(e) == [tag |-> "Err", err |-> e]

Panic == [tag |-> "Panic"]

\* the entries of a sequence, as a set
entries(v) == {v[k] : k \in 1 .. Len(v)}

\* PublicParametersBuilder::default()
PublicParametersBuilder_default ==
    [ left_element_size |-> None,
      right_element_size |-> None,
      position_vec_size |-> None,
      tau |-> None,
      domain_generator_l |-> None,
      domain_generator_r |-> None,
      domain_generator_i |-> None,
      positions_left |-> None,
      positions_right |-> None,
      position_mappings |-> None ]

\* validate_input with the limit checked before the power of two
validate_input_limit_first(input, max_limit) ==
    IF is_some(max_limit) /\ input > unwrap(max_limit) THEN "InputIsTooLarge"
    ELSE IF ~is_power_of_two(input) THEN "InputShouldBePowerOfTwo"
    ELSE "Ok"

\* validate_input: "Ok" or the error's name
validate_input(input, max_limit) ==
    IF ~is_power_of_two(input) THEN "InputShouldBePowerOfTwo"
    ELSE IF is_some(max_limit) /\ input > unwrap(max_limit) THEN "InputIsTooLarge"
    ELSE "Ok"

\* vanishing_poly_commitment_affine: the commitment to X^N - 1
vanishing_poly_commitment_affine(affine_srs, domain) ==
    commit(affine_srs, collect([k \in 1 .. domain.size + 1 |->
                           IF k = 1 THEN neg(1) ELSE IF k = domain.size + 1 THEN 1 ELSE 0]))

\* create_domain_and_vanishing_poly_commitment
create_domain_and_vanishing_poly_commitment(domain_generator, domain_size, g2_affine_srs) ==
    LET made ==
            IF is_none(domain_generator)
            THEN IF is_none(Radix2EvaluationDomain_new(domain_size))
                 THEN Err("FailedToCreateEvaluationDomain")
                 ELSE [tag |-> "Ok", domain |-> unwrap(Radix2EvaluationDomain_new(domain_size))]
            ELSE create_domain_with_generator(unwrap(domain_generator), domain_size)
    IN  IF made.tag = "Err" THEN made
        ELSE [tag |-> "Ok", domain |-> made.domain,
              commitment |-> vanishing_poly_commitment_affine(g2_affine_srs, made.domain)]

\* CanonicalSerialize of a Radix2EvaluationDomain: its fields in order
serialize_domain(d) ==
    << d.size, d.log_size_of_group, d.size_as_field_element, d.size_inv, d.group_gen,
       d.group_gen_inv, d.offset, d.offset_inv, d.offset_pow_size >>

RECURSIVE flatten(_)
\* the entries of a sequence of sequences, in order
flatten(vs) == IF Len(vs) = 0 THEN << >> ELSE Head(vs) \o flatten(Tail(vs))

\* CanonicalSerialize of a BTreeMap<usize, usize>: its length, then each
\* key and value in key order
serialize_map(m) == <<Len(m)>> \o flatten(m)

RECURSIVE digest_all(_, _, _, _)
\* the digest h after absorbing buffers lo .. hi of parts, one after the
\* other: the digest of their concatenation
digest_all(h, parts, lo, hi) ==
    IF lo > hi THEN h
    ELSE IF lo = hi THEN digest(h, parts[lo])
    ELSE CHOOSE r \in {digest_all(v, parts, (lo + hi) \div 2 + 1, hi) :
                          v \in {digest_all(h, parts, lo, (lo + hi) \div 2)}} : TRUE

\* build, lines 192-228: every field serialized into one buffer in order,
\* the buffer hashed
pp_hash_representation(pp) ==
    digest_all(0,
        << << pp.left_element_size, pp.right_element_size, pp.position_vec_size >>,
           serialize_vec(pp.g1_affine_srs), serialize_vec(pp.g2_affine_srs),
           << pp.g2_affine_zl, pp.g2_affine_zr, pp.g2_affine_zi >>,
           serialize_domain(pp.domain_l), serialize_domain(pp.domain_r),
           serialize_domain(pp.domain_i),
           serialize_vec(pp.positions_left), serialize_vec(pp.positions_right),
           serialize_vec(pp.poly_positions_left), serialize_vec(pp.poly_positions_right),
           << pp.g2_affine_positions_left, pp.g2_affine_positions_right >>,
           serialize_map(pp.position_mappings),
           serialize_vec(pp.poly_position_mappings),
           << pp.g1_affine_position_mappings >> >>,
        1, 15)

\* build, lines 145-254, once the three sizes are validated: tau is the
\* builder's, or the one drawn from the rng
build_with_sizes(self, left_element_size, right_element_size, position_vec_size, tau) ==
    LET pow_of_tau_g1 == max(left_element_size, right_element_size)
        setup == unsafe_setup_from_tau(pow_of_tau_g1, tau)
        g1_affine_srs == setup[1]
        g2_affine_srs == setup[2]
        dl == create_domain_and_vanishing_poly_commitment(
                  self.domain_generator_l, left_element_size, g2_affine_srs)
        dr == create_domain_and_vanishing_poly_commitment(
                  self.domain_generator_r, right_element_size, g2_affine_srs)
        di == create_domain_and_vanishing_poly_commitment(
                  self.domain_generator_i, position_vec_size, g2_affine_srs)
    IN  IF dl.tag = "Err" THEN dl
        ELSE IF dr.tag = "Err" THEN dr
        ELSE IF di.tag = "Err" THEN di
        ELSE IF is_none(self.positions_left) THEN Err("LeftIndicesCannotBeNone")
        ELSE IF is_none(self.positions_right) THEN Err("RightIndicesCannotBeNone")
        ELSE IF is_none(self.position_mappings) THEN Err("IndexMappingCannotBeNone")
        ELSE
        LET positions_left == unwrap(self.positions_left)
            positions_right == unwrap(self.positions_right)
            position_mappings == unwrap(self.position_mappings)
        IN  \* indexing a vector past its end panics
            IF \E i \in entries(positions_left) : i >= left_element_size THEN Panic
            ELSE IF \E i \in entries(positions_right) : i >= right_element_size THEN Panic
            ELSE IF \E kv \in entries(position_mappings) :
                        kv[1] >= left_element_size \/ kv[2] >= right_element_size THEN Panic
            ELSE
            LET poly_eval_positions_left ==
                    collect([k \in 1 .. left_element_size |->
                        IF (k - 1) \in entries(positions_left) THEN 1 ELSE 0])
                poly_positions_left ==
                    from_coefficients_vec(ifft(di.domain, poly_eval_positions_left))
                poly_eval_positions_right ==
                    collect([k \in 1 .. right_element_size |->
                        IF (k - 1) \in entries(positions_right) THEN 1 ELSE 0])
                poly_positions_right ==
                    from_coefficients_vec(ifft(di.domain, poly_eval_positions_right))
                roots_of_unity_r == roots_of_unity(dr.domain)
                poly_eval_position_mappings ==
                    collect([k \in 1 .. left_element_size |->
                        IF \E kv \in entries(position_mappings) : kv[1] = k - 1
                        THEN roots_of_unity_r[
                                 (CHOOSE kv \in entries(position_mappings) : kv[1] = k - 1)[2] + 1]
                        ELSE 0])
                poly_position_mappings ==
                    from_coefficients_vec(ifft(dl.domain, poly_eval_position_mappings))
            IN  IF \/ commit_panics(g2_affine_srs, poly_positions_left)
                   \/ commit_panics(g2_affine_srs, poly_positions_right)
                   \/ commit_panics(g1_affine_srs, poly_position_mappings)
                THEN Panic
                ELSE
                LET pp ==
                        [ left_element_size |-> left_element_size,
                          right_element_size |-> right_element_size,
                          position_vec_size |-> position_vec_size,
                          g1_affine_srs |-> g1_affine_srs,
                          g2_affine_srs |-> g2_affine_srs,
                          g2_affine_zl |-> dl.commitment,
                          g2_affine_zr |-> dr.commitment,
                          g2_affine_zi |-> di.commitment,
                          domain_l |-> dl.domain,
                          domain_r |-> dr.domain,
                          domain_i |-> di.domain,
                          positions_left |-> positions_left,
                          positions_right |-> positions_right,
                          poly_positions_left |-> poly_positions_left,
                          poly_positions_right |-> poly_positions_right,
                          g2_affine_positions_left |-> commit(g2_affine_srs, poly_positions_left),
                          g2_affine_positions_right |-> commit(g2_affine_srs, poly_positions_right),
                          position_mappings |-> position_mappings,
                          poly_position_mappings |-> poly_position_mappings,
                          g1_affine_position_mappings |->
                              commit(g1_affine_srs, poly_position_mappings),
                          hash_representation |-> 0 ]
                IN  [tag |-> "Ok",
                     pp |-> [pp EXCEPT !.hash_representation = pp_hash_representation(pp)]]

\* PublicParametersBuilder::build; rng_tau is the scalar the rng yields
build(self, rng_tau) ==
    IF is_none(self.left_element_size) THEN Err("MissingParameter")
    ELSE IF validate_input(unwrap(self.left_element_size), None) # "Ok"
    THEN Err(validate_input(unwrap(self.left_element_size), None))
    ELSE IF is_none(self.right_element_size) THEN Err("MissingParameter")
    ELSE IF validate_input(unwrap(self.right_element_size), None) # "Ok"
    THEN Err(validate_input(unwrap(self.right_element_size), None))
    ELSE IF is_none(self.position_vec_size) THEN Err("MissingParameter")
    ELSE LET pow_of_tau_g1 ==
                 max(unwrap(self.left_element_size), unwrap(self.right_element_size))
             v == validate_input(unwrap(self.position_vec_size), Some(pow_of_tau_g1))
         IN  IF v # "Ok" THEN Err(v)
             ELSE build_with_sizes(self, unwrap(self.left_element_size),
                                   unwrap(self.right_element_size),
                                   unwrap(self.position_vec_size),
                                   IF is_none(self.tau) THEN rng_tau ELSE unwrap(self.tau))

\* ------------------------------------------------------------------------
\* Witness and statement (src/src/witness.rs, src/src/statement.rs)
\* ------------------------------------------------------------------------

\* Witness::new with the right length checked first
Witness_new_right_first(pp, left_values, right_values) ==
    IF Len(right_values) # pp.right_element_size THEN Err("WrongNumberOfRightValues")
    ELSE IF Len(left_values) # pp.left_element_size THEN Err("WrongNumberOfLeftValues")
    ELSE [ tag |-> "Ok",
           witness |->
               [ left_values |-> left_values,
                 right_values |-> right_values,
                 poly_left_values |-> from_coefficients_vec(ifft(pp.domain_l, left_values)),
                 poly_right_values |-> from_coefficients_vec(ifft(pp.domain_r, right_values)) ] ]

\* Witness::new (witness.rs spells the two errors ...Elements, error.rs
\* ...Values; the size fields it reads are the builder's element sizes)
Witness_new(pp, left_values, right_values) ==
    IF Len(left_values) # pp.left_element_size THEN Err("WrongNumberOfLeftValues")
    ELSE IF Len(right_values) # pp.right_element_size THEN Err("WrongNumberOfRightValues")
    ELSE [ tag |-> "Ok",
           witness |->
               [ left_values |-> left_values,
                 right_values |-> right_values,
                 poly_left_values |-> from_coefficients_vec(ifft(pp.domain_l, left_values)),
                 poly_right_values |-> from_coefficients_vec(ifft(pp.domain_r, right_values)) ] ]

\* Witness::generate_statement where commit does not panic
generate_statement(self, pp) ==
    LET g1_affine_left_values == commit(pp.g1_affine_srs, self.poly_left_values)
        g1_affine_right_values == commit(pp.g1_affine_srs, self.poly_right_values)
    IN  [ g1_affine_left_values |-> g1_affine_left_values,
          g1_affine_right_values |-> g1_affine_right_values,
          hash_representation |-> blake2b(<<g1_affine_left_values, g1_affine_right_values>>) ]

\* ------------------------------------------------------------------------
\* Prover (src/src/prover.rs)
\* ------------------------------------------------------------------------

\* the fields of PublicParameters that prove reads beside those build stores
domain_coset_l(pp) == get_coset(pp.domain_l, GENERATOR)

domain_coset_r(pp) == get_coset(pp.domain_r, GENERATOR)

coset_eval_list_positions_left(pp) == fft(domain_coset_l(pp), pp.poly_positions_left)

coset_eval_list_positions_right(pp) == fft(domain_coset_r(pp), pp.poly_positions_right)

coset_eval_list_position_mappings(pp) == fft(domain_coset_l(pp), pp.poly_position_mappings)

roots_of_unity_coset_r(pp) == roots_of_unity(domain_coset_r(pp))

\* whether the map holds key i
contains_key(m, i) == \E kv \in entries(m) : kv[1] = i

\* the map's value at key i
get(m, i) == (CHOOSE kv \in entries(m) : kv[1] = i)[2]

\* pp.position_mappings[&i] as prove multiplies it by gamma: the tag of left
\* position i, the domain_r root of unity at the mapped index
position_mappings_tag(pp, i) == roots_of_unity(pp.domain_r)[get(pp.position_mappings, i) + 1]

\* prove, lines 39-47: the transcript opened, beta and gamma squeezed
prove_squeeze_beta_gamma(pp, statement) ==
    LET t == append_elements(Transcript_new,
                 << <<Label.PublicParameters, pp.hash_representation>>,
                    <<Label.Statement, statement.hash_representation>> >>)
        b == squeeze_challenge(t, Label.ChallengeBeta)
        g == squeeze_challenge(b.transcript, Label.ChallengeGamma)
    IN  [transcript |-> g.transcript, beta |-> b.challenge, gamma |-> g.challenge]

\* delta squeezed before the four commitments are appended
prove_squeeze_delta_epsilon_early(transcript, g1_affine_l, g1_affine_r, g1_affine_ql, g1_affine_qr) ==
    LET d == squeeze_challenge(transcript, Label.ChallengeDelta)
        t == append_elements(d.transcript,
                 << <<Label.G1L, g1_affine_l>>, <<Label.G1R, g1_affine_r>>,
                    <<Label.G1Ql, g1_affine_ql>>, <<Label.G1Qr, g1_affine_qr>> >>)
        e == squeeze_challenge(t, Label.ChallengeEpsilon)
    IN  [transcript |-> e.transcript, delta |-> d.challenge, epsilon |-> e.challenge]

\* prove, lines 120-131: the four commitments appended, delta and epsilon
\* squeezed
prove_squeeze_delta_epsilon(transcript, g1_affine_l, g1_affine_r, g1_affine_ql, g1_affine_qr) ==
    LET t == append_elements(transcript,
                 << <<Label.G1L, g1_affine_l>>, <<Label.G1R, g1_affine_r>>,
                    <<Label.G1Ql, g1_affine_ql>>, <<Label.G1Qr, g1_affine_qr>> >>)
        d == squeeze_challenge(t, Label.ChallengeDelta)
        e == squeeze_challenge(d.transcript, Label.ChallengeEpsilon)
    IN  [transcript |-> e.transcript, delta |-> d.challenge, epsilon |-> e.challenge]

\* prove, lines 150-178: the batch proof and the nine evaluations appended,
\* zeta squeezed
prove_squeeze_zeta(transcript, batch_proof_at_rand_point, ev) ==
    LET t == append_element(transcript, Label.G1BatchProofAtRandPoint,
                            batch_proof_at_rand_point)
        u == append_elements(t,
                 << <<Label.FrLAtDelta, ev.l_at_delta>>, <<Label.FrRAtDelta, ev.r_at_delta>>,
                    <<Label.FrLvAtDelta, ev.lv_at_delta>>, <<Label.FrRvAtDelta, ev.rv_at_delta>>,
                    <<Label.FrPlAtDelta, ev.pl_at_delta>>, <<Label.FrPrAtDelta, ev.pr_at_delta>>,
                    <<Label.FrPmAtDelta, ev.pm_at_delta>>,
                    <<Label.FrLAtZero, ev.l_at_zero>>, <<Label.FrRAtZero, ev.r_at_zero>> >>)
        z == squeeze_challenge(u, Label.ChallengeZeta)
    IN  [transcript |-> z.transcript, zeta |-> z.challenge]

\* prove, lines 50-54 and 87-90: the value inverted at left position i and
\* at right position i
left_eval(pp, witness, beta, gamma, i) ==
    add(add(beta, witness.left_values[i + 1]), mul(gamma, position_mappings_tag(pp, i)))

right_eval(pp, witness, beta, gamma, i) ==
    add(add(beta, witness.right_values[i + 1]), mul(gamma, roots_of_unity(pp.domain_r)[i + 1]))

\* prove's L with the values themselves in place of their inverses
prove_poly_l_uninverted(pp, witness, beta, gamma) ==
    from_coefficients_vec(ifft(pp.domain_l,
        collect([k \in 1 .. pp.left_element_size |->
            IF (k - 1) \in entries(pp.positions_left)
            THEN left_eval(pp, witness, beta, gamma, k - 1)
            ELSE 0])))

\* prove, lines 50-66: the polynomial L from the inverses
prove_poly_l(pp, witness, beta, gamma) ==
    from_coefficients_vec(ifft(pp.domain_l,
        collect([k \in 1 .. pp.left_element_size |->
            IF (k - 1) \in entries(pp.positions_left)
            THEN unwrap(inverse(left_eval(pp, witness, beta, gamma, k - 1)))
            ELSE 0])))

\* prove, lines 87-101: the polynomial R from the inverses
prove_poly_r(pp, witness, beta, gamma) ==
    from_coefficients_vec(ifft(pp.domain_r,
        collect([k \in 1 .. pp.right_element_size |->
            IF (k - 1) \in entries(pp.positions_right)
            THEN unwrap(inverse(right_eval(pp, witness, beta, gamma, k - 1)))
            ELSE 0])))

\* prove, lines 69-83: the left quotient's coefficients, a result
prove_coeff_ql(pp, witness, beta, gamma, poly_l) ==
    LET coset_eval_list_l == fft(domain_coset_l(pp), poly_l)
        coset_eval_list_left_values == fft(domain_coset_l(pp), witness.poly_left_values)
        p == coset_eval_list_positions_left(pp)
        m == coset_eval_list_position_mappings(pp)
        coset_eval_list_ql ==
            collect([k \in 1 .. pp.left_element_size |->
                sub(mul(coset_eval_list_l[k],
                        add(add(beta, coset_eval_list_left_values[k]), mul(gamma, m[k]))),
                    p[k])])
    IN  divide_by_vanishing_poly_on_coset_in_place(
            pp.domain_l, ifft(domain_coset_l(pp), coset_eval_list_ql))

\* prove, lines 104-117: the right quotient's coefficients, a result
prove_coeff_qr(pp, witness, beta, gamma, poly_r) ==
    LET coset_eval_list_r == fft(domain_coset_r(pp), poly_r)
        coset_eval_list_right_values == fft(domain_coset_r(pp), witness.poly_right_values)
        p == coset_eval_list_positions_right(pp)
        c == roots_of_unity_coset_r(pp)
        coset_eval_list_qr ==
            collect([k \in 1 .. pp.right_element_size |->
                sub(mul(coset_eval_list_r[k],
                        add(add(beta, coset_eval_list_right_values[k]), mul(gamma, c[k]))),
                    p[k])])
    IN  divide_by_vanishing_poly_on_coset_in_place(
            pp.domain_r, ifft(domain_coset_r(pp), coset_eval_list_qr))

\* prove, lines 133-148: the polynomials of the batched opening at delta
prove_poly_list_at_delta(pp, witness, poly_l, poly_r, poly_ql, poly_qr) ==
    << poly_l, poly_r, poly_ql, poly_qr,
       witness.poly_left_values, witness.poly_right_values,
       pp.poly_positions_left, pp.poly_positions_right, pp.poly_position_mappings >>

\* prove, lines 49-85: the left half.  Ok with L, Ql and their commitments,
\* Err, or Panic
prove_left(pp, witness, beta, gamma) ==
    IF \E i \in entries(pp.positions_left) : ~contains_key(pp.position_mappings, i)
    THEN Panic
    ELSE IF \E i \in entries(pp.positions_left) : left_eval(pp, witness, beta, gamma, i) = 0
    THEN Err("FailedToInverseFieldElement")
    ELSE LET poly_l == prove_poly_l(pp, witness, beta, gamma)
             ql == prove_coeff_ql(pp, witness, beta, gamma, poly_l)
         IN  IF commit_panics(pp.g1_affine_srs, poly_l) THEN Panic
             ELSE IF ql.tag = "Err" THEN ql
             ELSE IF commit_panics(pp.g1_affine_srs, from_coefficients_vec(ql.vec))
             THEN Panic
             ELSE [ tag |-> "Ok",
                    poly |-> poly_l,
                    g1_affine |-> commit(pp.g1_affine_srs, poly_l),
                    poly_q |-> from_coefficients_vec(ql.vec),
                    g1_affine_q |-> commit(pp.g1_affine_srs, from_coefficients_vec(ql.vec)) ]

\* prove's right half with 0 in place of every missing inverse
prove_right_substituting(pp, witness, beta, gamma) ==
    LET poly_r == from_coefficients_vec(ifft(pp.domain_r,
                      collect([k \in 1 .. pp.right_element_size |->
                          IF /\ (k - 1) \in entries(pp.positions_right)
                             /\ right_eval(pp, witness, beta, gamma, k - 1) # 0
                          THEN unwrap(inverse(right_eval(pp, witness, beta, gamma, k - 1)))
                          ELSE 0])))
        qr == prove_coeff_qr(pp, witness, beta, gamma, poly_r)
    IN  IF qr.tag = "Err" THEN qr
        ELSE [ tag |-> "Ok",
               poly |-> poly_r,
               g1_affine |-> commit(pp.g1_affine_srs, poly_r),
               poly_q |-> from_coefficients_vec(qr.vec),
               g1_affine_q |-> commit(pp.g1_affine_srs, from_coefficients_vec(qr.vec)) ]

\* prove, lines 87-118: the right half.  Ok with R, Qr and their
\* commitments, Err, or Panic
prove_right(pp, witness, beta, gamma) ==
    IF \E i \in entries(pp.positions_right) : right_eval(pp, witness, beta, gamma, i) = 0
    THEN Err("FailedToInverseFieldElement")
    ELSE LET poly_r == prove_poly_r(pp, witness, beta, gamma)
             qr == prove_coeff_qr(pp, witness, beta, gamma, poly_r)
         IN  IF commit_panics(pp.g1_affine_srs, poly_r) THEN Panic
             ELSE IF qr.tag = "Err" THEN qr
             ELSE IF commit_panics(pp.g1_affine_srs, from_coefficients_vec(qr.vec))
             THEN Panic
             ELSE [ tag |-> "Ok",
                    poly |-> poly_r,
                    g1_affine |-> commit(pp.g1_affine_srs, poly_r),
                    poly_q |-> from_coefficients_vec(qr.vec),
                    g1_affine_q |-> commit(pp.g1_affine_srs, from_coefficients_vec(qr.vec)) ]

\* prove, lines 133-162: the batch proof at delta and the nine evaluations
prove_open_at_delta(pp, witness, left, right, delta, epsilon) ==
    [ batch_proof_at_rand_point |->
          batch_open(pp.g1_affine_srs,
                     prove_poly_list_at_delta(pp, witness, left.poly, right.poly,
                                              left.poly_q, right.poly_q),
                     delta, epsilon),
      l_at_delta |-> evaluate(left.poly, delta),
      r_at_delta |-> evaluate(right.poly, delta),
      lv_at_delta |-> evaluate(witness.poly_left_values, delta),
      rv_at_delta |-> evaluate(witness.poly_right_values, delta),
      pl_at_delta |-> evaluate(pp.poly_positions_left, delta),
      pr_at_delta |-> evaluate(pp.poly_positions_right, delta),
      pm_at_delta |-> evaluate(pp.poly_position_mappings, delta),
      l_at_zero |-> evaluate(left.poly, 0),
      r_at_zero |-> evaluate(right.poly, 0) ]

\* prove, lines 180-204: the batch proof at zero, and the proof returned
prove_proof(pp, left, right, opened, zeta) ==
    [ g1_affine_l |-> left.g1_affine,
      g1_affine_r |-> right.g1_affine,
      g1_affine_ql |-> left.g1_affine_q,
      g1_affine_qr |-> right.g1_affine_q,
      batch_proof_at_rand_point |-> opened.batch_proof_at_rand_point,
      batch_proof_at_zero |->
          batch_open(pp.g1_affine_srs, <<left.poly, right.poly>>, 0, zeta),
      l_at_delta |-> opened.l_at_delta,
      r_at_delta |-> opened.r_at_delta,
      lv_at_delta |-> opened.lv_at_delta,
      rv_at_delta |-> opened.rv_at_delta,
      pl_at_delta |-> opened.pl_at_delta,
      pr_at_delta |-> opened.pr_at_delta,
      pm_at_delta |-> opened.pm_at_delta,
      l_at_zero |-> opened.l_at_zero,
      r_at_zero |-> opened.r_at_zero ]

\* ------------------------------------------------------------------------
\* Verifier (src/src/verifier.rs)
\* ------------------------------------------------------------------------

\* verify, lines 17-22: the transcript opened, beta and gamma squeezed
verify_squeeze_beta_gamma(pp, statement) ==
    LET t == append_elements(Transcript_new,
                 << <<Label.PublicParameters, pp.hash_representation>>,
                    <<Label.Statement, statement.hash_representation>> >>)
        b == squeeze_challenge(t, Label.ChallengeBeta)
        g == squeeze_challenge(b.transcript, Label.ChallengeGamma)
    IN  [transcript |-> g.transcript, beta |-> b.challenge, gamma |-> g.challenge]

\* verify, lines 23-38: the four commitments appended, delta and epsilon
\* squeezed
verify_squeeze_delta_epsilon(transcript, proof) ==
    LET t == append_elements(transcript,
                 << <<Label.G2L, proof.g1_affine_l>>, <<Label.G2R, proof.g1_affine_r>> >>)
        u == append_elements(t,
                 << <<Label.G1Ql, proof.g1_affine_ql>>, <<Label.G1Qr, proof.g1_affine_qr>> >>)
        d == squeeze_challenge(u, Label.ChallengeDelta)
        e == squeeze_challenge(d.transcript, Label.ChallengeEpsilon)
    IN  [transcript |-> e.transcript, delta |-> d.challenge, epsilon |-> e.challenge]

\* verify, lines 40-55: the batch proof and six evaluations appended, zeta
\* squeezed
verify_squeeze_zeta(transcript, proof) ==
    LET t == append_element(transcript, Label.G1BatchProofAtRandPoint,
                            proof.batch_proof_at_rand_point)
        u == append_elements(t,
                 << <<Label.FrLAtDelta, proof.l_at_delta>>,
                    <<Label.FrRAtDelta, proof.r_at_delta>>,
                    <<Label.FrLvAtDelta, proof.lv_at_delta>>,
                    <<Label.FrRvAtDelta, proof.rv_at_delta>>,
                    <<Label.FrLAtZero, proof.l_at_zero>>,
                    <<Label.FrRAtZero, proof.r_at_zero>> >>)
        z == squeeze_challenge(u, Label.ChallengeZeta)
    IN  [transcript |-> z.transcript, zeta |-> z.challenge]

\* the value for Ql(delta) with PL(delta) read from the proof
verify_fr_ql_at_delta_from_proof(pp, proof, ch, fr_inv_zl_at_delta) ==
    LET fr_pm_at_delta == evaluate(pp.poly_position_mappings, ch.delta)
    IN  mul(sub(mul(add(add(ch.beta, proof.lv_at_delta), mul(ch.gamma, fr_pm_at_delta)),
                    proof.l_at_delta),
                proof.pl_at_delta),
            fr_inv_zl_at_delta)

\* verify, lines 59-74: the values the verifier reconstructs for Ql(delta)
\* and Qr(delta), given the two inverses
verify_fr_ql_at_delta(pp, proof, ch, fr_inv_zl_at_delta) ==
    LET fr_pl_at_delta == evaluate(pp.poly_positions_left, ch.delta)
        fr_pm_at_delta == evaluate(pp.poly_position_mappings, ch.delta)
    IN  mul(sub(mul(add(add(ch.beta, proof.lv_at_delta), mul(ch.gamma, fr_pm_at_delta)),
                    proof.l_at_delta),
                fr_pl_at_delta),
            fr_inv_zl_at_delta)

verify_fr_qr_at_delta(pp, proof, ch, fr_inv_zr_at_delta) ==
    LET fr_pr_at_delta == evaluate(pp.poly_positions_right, ch.delta)
    IN  mul(sub(mul(add(add(ch.beta, proof.rv_at_delta), mul(ch.gamma, ch.delta)),
                    proof.r_at_delta),
                fr_pr_at_delta),
            fr_inv_zr_at_delta)

\* verify, lines 76-84: the commitments of the batched opening at delta, with
\* the polynomial each commits to
verify_g1_list(pp, statement, proof) ==
    << [poly |-> "L", g1 |-> proof.g1_affine_l],
       [poly |-> "R", g1 |-> proof.g1_affine_r],
       [poly |-> "Ql", g1 |-> proof.g1_affine_ql],
       [poly |-> "Qr", g1 |-> proof.g1_affine_qr],
       [poly |-> "LV", g1 |-> statement.g1_affine_left_values],
       [poly |-> "RV", g1 |-> statement.g1_affine_right_values],
       [poly |-> "PM", g1 |-> pp.g1_affine_position_mappings] >>

\* verify, lines 86-94: the evaluations of the batched opening at delta
verify_fr_list(pp, proof, ch, fr_ql_at_delta, fr_qr_at_delta) ==
    << proof.l_at_delta, proof.r_at_delta, fr_ql_at_delta, fr_qr_at_delta,
       proof.lv_at_delta, proof.rv_at_delta, evaluate(pp.poly_position_mappings, ch.delta) >>

RECURSIVE verify_batched(_, _, _, _)
\* verify, lines 96-106: after the first n pairs, (g1_batched, fr_batched),
\* pair k weighted by epsilon^(k-1)
verify_batched(g1_list, fr_list, epsilon, n) ==
    IF n = 0 THEN <<0, 0>>
    ELSE LET before == verify_batched(g1_list, fr_list, epsilon, n - 1)
             fr_pow_epsilon == pow(epsilon, n - 1)
         IN  << add(before[1], mul(g1_list[n].g1, fr_pow_epsilon)),
                add(before[2], mul(fr_list[n], fr_pow_epsilon)) >>

\* verify, lines 108-118: whether the pairing equation at delta holds
verify_pairing_at_delta(pp, statement, proof, ch, fr_ql_at_delta, fr_qr_at_delta) ==
    LET g1_list == verify_g1_list(pp, statement, proof)
        fr_list == verify_fr_list(pp, proof, ch, fr_ql_at_delta, fr_qr_at_delta)
        batched == verify_batched(g1_list, fr_list, ch.epsilon, min(Len(g1_list), Len(fr_list)))
        pairing_left ==
            pairing(add(sub(batched[1], mul(pp.g1_affine_srs[1], batched[2])),
                        mul(proof.batch_proof_at_rand_point, ch.delta)),
                    pp.g2_affine_srs[1])
        pairing_right == pairing(proof.batch_proof_at_rand_point, pp.g2_affine_srs[2])
    IN  pairing_left = pairing_right

\* verify, lines 185-194: whether the pairing equation at zero holds
verify_pairing_at_zero(pp, proof, ch) ==
    LET tmp == sub(add(mul(proof.g1_affine_r, ch.zeta), proof.g1_affine_l),
                   mul(pp.g1_affine_srs[1],
                       add(proof.l_at_zero, mul(proof.r_at_zero, ch.zeta))))
        pairing_left == pairing(tmp, pp.g2_affine_srs[1])
        pairing_right == pairing(proof.batch_proof_at_zero, pp.g2_affine_srs[2])
    IN  pairing_left = pairing_right

\* the grand-sum check left out
verify_sumcheck_skipped(pp, proof) == TRUE

\* the grand-sum check without the two sizes
verify_sumcheck_unscaled(pp, proof) == proof.l_at_zero = proof.r_at_zero

\* verify, lines 195-198: whether the grand sums agree
verify_sumcheck(pp, proof) ==
    mul(proof.l_at_zero, from_u64(pp.left_element_size))
        = mul(proof.r_at_zero, from_u64(pp.right_element_size))

verify_checks_sumcheck_first(pp, statement, proof, ch) ==
    LET fr_zl_at_delta == sub(pow(ch.delta, pp.left_element_size), 1)
        fr_zr_at_delta == sub(pow(ch.delta, pp.right_element_size), 1)
    IN  IF is_none(inverse(fr_zl_at_delta)) THEN "FailedToInverseFieldElement"
        ELSE IF is_none(inverse(fr_zr_at_delta)) THEN "FailedToInverseFieldElement"
        ELSE IF ~verify_sumcheck(pp, proof) THEN "EqualityCheckFailed"
        ELSE IF ~verify_pairing_at_delta(pp, statement, proof, ch,
                     verify_fr_ql_at_delta(pp, proof, ch, unwrap(inverse(fr_zl_at_delta))),
                     verify_fr_qr_at_delta(pp, proof, ch, unwrap(inverse(fr_zr_at_delta))))
        THEN "Pairing1Failed"
        ELSE IF ~verify_pairing_at_zero(pp, proof, ch) THEN "Pairing2Failed"
        ELSE "Ok"

\* verify, lines 57-200, given the challenges: "Ok" or the error's name
verify_checks(pp, statement, proof, ch) ==
    LET fr_zl_at_delta == sub(pow(ch.delta, pp.left_element_size), 1)
        fr_zr_at_delta == sub(pow(ch.delta, pp.right_element_size), 1)
    IN  IF is_none(inverse(fr_zl_at_delta)) THEN "FailedToInverseFieldElement"
        ELSE IF is_none(inverse(fr_zr_at_delta)) THEN "FailedToInverseFieldElement"
        ELSE IF ~verify_pairing_at_delta(pp, statement, proof, ch,
                     verify_fr_ql_at_delta(pp, proof, ch, unwrap(inverse(fr_zl_at_delta))),
                     verify_fr_qr_at_delta(pp, proof, ch, unwrap(inverse(fr_zr_at_delta))))
        THEN "Pairing1Failed"
        ELSE IF ~verify_pairing_at_zero(pp, proof, ch) THEN "Pairing2Failed"
        ELSE IF ~verify_sumcheck(pp, proof) THEN "EqualityCheckFailed"
        ELSE "Ok"

\* ------------------------------------------------------------------------
\* Inputs
\* ------------------------------------------------------------------------

\* sizes a builder is given range over 0 .. MaxSize
MaxSize == 4

\* position vectors hold at most MaxPositions indices
MaxPositions == 2

\* witness arrays are drawn from the seeds 1 .. MaxSeed
MaxSeed == 2

RECURSIVE increasing(_, _)
\* the strictly increasing sequences of length len over 0 .. top
increasing(len, top) ==
    IF len = 0 THEN {<< >>}
    ELSE {Append(qi[1], qi[2]) :
             qi \in {x \in increasing(len - 1, top) \X (0 .. top) :
                        Len(x[1]) = 0 \/ x[1][Len(x[1])] < x[2]}}

\* the position vectors over a domain of the given size
position_vectors(size) ==
    UNION {increasing(len, size - 1) : len \in 1 .. MaxPositions}

\* the map pairing the k-th left position with the k-th right position
zip_mapping(positions_left, positions_right) ==
    collect([k \in 1 .. min(Len(positions_left), Len(positions_right)) |->
        <<positions_left[k], positions_right[k]>>])

PowersOfTwo == {n \in 1 .. MaxSize : is_power_of_two(n)}

\* the builders of the protocol runs: sizes at least 2, in-range position
\* vectors of equal length, the mapping pairing them in order, tau given
ProtocolBuilders ==
    { [PublicParametersBuilder_default EXCEPT
           !.left_element_size = Some(c[1]),
           !.right_element_size = Some(c[2]),
           !.position_vec_size = Some(c[3]),
           !.tau = Some(5),
           !.positions_left = Some(c[4]),
           !.positions_right = Some(c[5]),
           !.position_mappings = Some(zip_mapping(c[4], c[5]))] :
      c \in { x \in (PowersOfTwo \ {1}) \X (PowersOfTwo \ {1}) \X PowersOfTwo
                    \X position_vectors(MaxSize) \X position_vectors(MaxSize) :
                 /\ x[3] <= max(x[1], x[2])
                 /\ Len(x[4]) = Len(x[5])
                 /\ \A i \in entries(x[4]) : i < x[1]
                 /\ \A i \in entries(x[5]) : i < x[2] } }

\* the position vectors a caller may hand the builder: indices up to MaxSize,
\* past the end of the largest domain
CallerPositions == {None} \cup {Some(v) : v \in position_vectors(MaxSize + 1)}

\* the mappings a caller may hand the builder for two position vectors: none,
\* the one pairing them in order, and that one without its last pair
CallerMappings(positions_left, positions_right) ==
    IF is_none(positions_left) \/ is_none(positions_right) THEN {None, Some(<< >>)}
    ELSE LET zipped == zip_mapping(unwrap(positions_left), unwrap(positions_right))
         IN  {None, Some(zipped), Some(SubSeq(zipped, 1, Len(zipped) - 1))}

\* the builders of the calls to build alone: every setting of the three
\* sizes over one in-range position, and every setting of the positions and
\* the mapping over three valid settings of the sizes
BuildBuilders ==
    { [PublicParametersBuilder_default EXCEPT
           !.left_element_size = c[1],
           !.right_element_size = c[2],
           !.position_vec_size = c[3],
           !.tau = c[4],
           !.positions_left = Some(<<0>>),
           !.positions_right = Some(<<0>>),
           !.position_mappings = Some(<< <<0, 0>> >>)] :
      c \in ({None} \cup {Some(n) : n \in 0 .. MaxSize})
            \X ({None} \cup {Some(n) : n \in 0 .. MaxSize})
            \X ({None} \cup {Some(n) : n \in 0 .. MaxSize})
            \X {None, Some(5)} }
    \cup
    UNION { { [PublicParametersBuilder_default EXCEPT
                   !.left_element_size = Some(sizes[1]),
                   !.right_element_size = Some(sizes[2]),
                   !.position_vec_size = Some(sizes[3]),
                   !.tau = Some(5),
                   !.positions_left = l,
                   !.positions_right = r,
                   !.position_mappings = m] : m \in CallerMappings(l, r) } :
            sizes \in {<<2, 2, 2>>, <<4, 2, 2>>, <<2, 4, 1>>},
            l \in CallerPositions, r \in CallerPositions }

\* the scalars the rng of build may yield
RngScalars == {2, 3}

\* Fr::rand(rng): the n-th scalar the rng seeded with seed yields
rand(seed, n) == digest(seed, <<n>>) % P

\* the arrays of the end_to_end test (lib.rs lines 40-56): random values,
\* each mapped right entry set to its left entry; then, when mutated > 0,
\* the mutated-th designated pair is overwritten with 42 and 12
test_values(pp, seed, mutated) ==
    LET left_witness_values == collect([k \in 1 .. pp.left_element_size |-> rand(seed, k)])
        right_witness_values ==
            collect([k \in 1 .. pp.right_element_size |->
                IF \E kv \in entries(pp.position_mappings) : kv[2] = k - 1
                THEN left_witness_values[
                         (CHOOSE kv \in entries(pp.position_mappings) : kv[2] = k - 1)[1] + 1]
                ELSE rand(seed, pp.left_element_size + k)])
    IN  IF mutated = 0 THEN <<left_witness_values, right_witness_values>>
        ELSE << [left_witness_values EXCEPT
                     ![pp.position_mappings[mutated][1] + 1] = from_u64(42)],
                [right_witness_values EXCEPT
                     ![pp.position_mappings[mutated][2] + 1] = from_u64(12)] >>

\* the array v cut or extended with random values to length len
with_len(v, len, seed) ==
    collect([k \in 1 .. len |-> IF k <= Len(v) THEN v[k] ELSE rand(seed, k)])

\* ------------------------------------------------------------------------
\* The proofs a verifier may be handed
\* ------------------------------------------------------------------------

\* the proof with its batch proof at delta replaced by a group element that
\* satisfies the verifier's equation at delta under challenges ch, where
\* one exists
forge_at_delta(pp, statement, proof, ch) ==
    LET zl == inverse(sub(pow(ch.delta, pp.left_element_size), 1))
        zr == inverse(sub(pow(ch.delta, pp.right_element_size), 1))
        fits(x) ==
            verify_pairing_at_delta(pp, statement,
                [proof EXCEPT !.batch_proof_at_rand_point = x], ch,
                verify_fr_ql_at_delta(pp, proof, ch, unwrap(zl)),
                verify_fr_qr_at_delta(pp, proof, ch, unwrap(zr)))
    IN  IF is_some(zl) /\ is_some(zr) /\ \E x \in Fr : fits(x)
        THEN [proof EXCEPT !.batch_proof_at_rand_point = CHOOSE x \in Fr : fits(x)]
        ELSE proof

\* the proof with its batch proof at zero replaced by a group element that
\* satisfies the verifier's equation at zero under challenge zeta, where
\* one exists
forge_at_zero(pp, proof, zeta) ==
    LET fits(y) == verify_pairing_at_zero(pp, [proof EXCEPT !.batch_proof_at_zero = y],
                                          [zeta |-> zeta])
    IN  IF \E y \in Fr : fits(y)
        THEN [proof EXCEPT !.batch_proof_at_zero = CHOOSE y \in Fr : fits(y)]
        ELSE proof

\* ------------------------------------------------------------------------
\* The state machine: one builder, built, then a witness, its statement, a
\* proof, the proof handed to the verifier, and the verification
\* ------------------------------------------------------------------------

Nothing == << >>

InitWith(builders) ==
    /\ pc = "builder"
    /\ builder \in builders
    /\ public_parameters = Nothing
    /\ values = Nothing
    /\ the_witness = Nothing
    /\ the_statement = Nothing
    /\ proved = Nothing
    /\ handed = Nothing
    /\ verified = Nothing
    /\ calls = Nothing
    /\ kzg = Nothing
    /\ domain_call = Nothing
    /\ transcripts = Nothing

Init == InitWith(ProtocolBuilders)

\* PublicParametersBuilder::build
Build ==
    /\ pc = "builder"
    /\ \E rng_tau \in RngScalars :
          LET r == build(builder, rng_tau)
          IN  /\ public_parameters' = r
              /\ pc' = IF r.tag = "Ok" THEN "built"
                       ELSE IF r.tag = "Err" THEN "build_failed" ELSE "aborted"
    /\ UNCHANGED <<builder, values, the_witness, the_statement, proved, handed, verified, calls, kzg, domain_call,
                   transcripts>>

\* Witness::new on the arrays of the test, or on those arrays one entry
\* shorter or longer
WitnessNew ==
    /\ pc = "built"
    /\ \E seed \in 1 .. MaxSeed, mutated \in 0 .. Len(public_parameters.pp.position_mappings),
          extra_left \in -1 .. 1, extra_right \in -1 .. 1 :
          /\ mutated > 0 => extra_left = 0 /\ extra_right = 0
          /\ LET v == test_values(public_parameters.pp, seed, mutated)
                 left_values == with_len(v[1], Len(v[1]) + extra_left, seed)
                 right_values == with_len(v[2], Len(v[2]) + extra_right, seed)
                 r == Witness_new(public_parameters.pp, left_values, right_values)
             IN  /\ values' = [left_values |-> left_values, right_values |-> right_values]
                 /\ the_witness' = r
                 /\ pc' = IF r.tag = "Ok" THEN "witness" ELSE "witness_failed"
    /\ UNCHANGED <<builder, public_parameters, the_statement, proved, handed, verified, calls, kzg, domain_call,
                   transcripts>>

\* Witness::generate_statement
GenerateStatement ==
    /\ pc = "witness"
    /\ the_statement' = generate_statement(the_witness.witness, public_parameters.pp)
    /\ pc' = "statement"
    /\ UNCHANGED <<builder, public_parameters, values, the_witness, proved, handed, verified, calls, kzg, domain_call,
                   transcripts>>

\* prove: Ok with the proof, Err, or Panic; beside the result, the
\* transcript as the call left it, the challenges and the polynomials
Prove ==
    /\ pc = "statement"
    /\ LET pp == public_parameters.pp
           witness == the_witness.witness
       IN  \E bg \in {prove_squeeze_beta_gamma(pp, the_statement)} :
           \E left \in {prove_left(pp, witness, bg.beta, bg.gamma)} :
           \E right \in {IF left.tag = "Ok"
                         THEN prove_right(pp, witness, bg.beta, bg.gamma) ELSE left} :
              IF right.tag # "Ok"
              THEN /\ proved' = IF right.tag = "Err"
                                THEN [tag |-> "Err", err |-> right.err,
                                      transcript |-> bg.transcript]
                                ELSE [tag |-> "Panic", transcript |-> bg.transcript]
                   /\ pc' = IF right.tag = "Err" THEN "prove_failed" ELSE "aborted"
              ELSE \E de \in {prove_squeeze_delta_epsilon(bg.transcript,
                                  left.g1_affine, right.g1_affine,
                                  left.g1_affine_q, right.g1_affine_q)} :
                   \E opened \in {prove_open_at_delta(pp, witness, left, right,
                                                      de.delta, de.epsilon)} :
                   \E z \in {prove_squeeze_zeta(de.transcript,
                                 opened.batch_proof_at_rand_point, opened)} :
                      /\ proved' =
                            [ tag |-> "Ok",
                              proof |-> prove_proof(pp, left, right, opened, z.zeta),
                              transcript |-> z.transcript,
                              challenges |->
                                  [ beta |-> bg.beta, gamma |-> bg.gamma, delta |-> de.delta,
                                    epsilon |-> de.epsilon, zeta |-> z.zeta ],
                              polys |-> [ l |-> left.poly, r |-> right.poly,
                                          ql |-> left.poly_q, qr |-> right.poly_q ] ]
                      /\ pc' = "proved"
    /\ UNCHANGED <<builder, public_parameters, values, the_witness, the_statement,
                   handed, verified, calls, kzg, domain_call,
                   transcripts>>

\* the proof reaches the verifier: the prover's, or that proof with its
\* batch proof at delta, at zero, or both forged
Hand ==
    /\ pc = "proved"
    /\ LET pp == public_parameters.pp
       IN  \E at_delta \in BOOLEAN, at_zero \in BOOLEAN :
           \E bg \in {verify_squeeze_beta_gamma(pp, the_statement)} :
           \E de \in {verify_squeeze_delta_epsilon(bg.transcript, proved.proof)} :
           \E first \in {IF at_delta
                         THEN forge_at_delta(pp, the_statement, proved.proof,
                                  [ beta |-> bg.beta, gamma |-> bg.gamma,
                                    delta |-> de.delta, epsilon |-> de.epsilon ])
                         ELSE proved.proof} :
           \E z \in {verify_squeeze_zeta(de.transcript, first)} :
              handed' = IF at_zero THEN forge_at_zero(pp, first, z.zeta) ELSE first
    /\ pc' = "handed"
    /\ UNCHANGED <<builder, public_parameters, values, the_witness, the_statement,
                   proved, verified, calls, kzg, domain_call,
                   transcripts>>

\* verify on the proof handed: the result, and beside it the transcript as
\* the call left it and the challenges
Verify ==
    /\ pc = "handed"
    /\ LET pp == public_parameters.pp
       IN  \E bg \in {verify_squeeze_beta_gamma(pp, the_statement)} :
           \E de \in {verify_squeeze_delta_epsilon(bg.transcript, handed)} :
           \E z \in {verify_squeeze_zeta(de.transcript, handed)} :
              LET ch == [ beta |-> bg.beta, gamma |-> bg.gamma, delta |-> de.delta,
                          epsilon |-> de.epsilon, zeta |-> z.zeta ]
              IN  verified' = [ result |-> verify_checks(pp, the_statement, handed, ch),
                                transcript |-> z.transcript,
                                challenges |-> ch ]
    /\ pc' = "verified"
    /\ UNCHANGED <<builder, public_parameters, values, the_witness, the_statement,
                   proved, handed, calls, kzg, domain_call,
                   transcripts>>

\* ------------------------------------------------------------------------
\* Calls of prove and verify in flight together on the same
\* PublicParameters, witness, statement and proof.  Every call holds its
\* own locals; a step of a call is one stretch of its code between two
\* points where another call may run.
\* ------------------------------------------------------------------------

\* at most MaxCalls calls are in flight together
MaxCalls == 2

\* the builders of the runs with calls in flight together
CallBuilders ==
    { b \in ProtocolBuilders :
         /\ b.position_vec_size = b.left_element_size
         /\ \/ /\ b.left_element_size = Some(2) /\ b.right_element_size = Some(2)
               /\ b.positions_left = Some(<<0>>) /\ b.positions_right = Some(<<1>>)
            \/ /\ b.left_element_size = Some(2) /\ b.right_element_size = Some(4)
               /\ b.positions_left = Some(<<0, 1>>) /\ b.positions_right = Some(<<1, 3>>) }

\* what prove and verify are given: references to values they only read
given_to_calls == <<public_parameters, the_witness, the_statement, handed>>

\* the transcript of a call started while the transcripts in_flight exist,
\* were one transcript shared by the calls
shared_transcript(in_flight) ==
    IF in_flight = {} THEN Transcript_new ELSE CHOOSE t \in in_flight : TRUE

\* prove line 39, verify line 17: the transcript of a call is a local made
\* by Transcript::new, whatever transcripts the calls in flight hold
call_transcript(in_flight) == Transcript_new

\* prove lines 40-47, verify lines 18-25, on the call's transcript
call_squeeze_beta_gamma(transcript, pp, statement) ==
    LET t == append_elements(transcript,
                 << <<Label.PublicParameters, pp.hash_representation>>,
                    <<Label.Statement, statement.hash_representation>> >>)
        b == squeeze_challenge(t, Label.ChallengeBeta)
        g == squeeze_challenge(b.transcript, Label.ChallengeGamma)
    IN  [transcript |-> g.transcript, beta |-> b.challenge, gamma |-> g.challenge]

\* the transcripts the calls other than c hold
transcripts_in_flight(c) ==
    {calls[d].transcript : d \in {d \in DOMAIN calls : d # c /\ calls[d].stage # "start"}}

\* the calls begin: each of them a prove or a verify on the same values
StartCalls ==
    /\ pc = "verified"
    /\ \E n \in 1 .. MaxCalls : \E kinds \in [1 .. n -> {"prove", "verify"}] :
          calls' = [c \in 1 .. n |->
                       [ kind |-> kinds[c], stage |-> "start", given |-> given_to_calls,
                         transcript |-> Nothing, locals |-> Nothing, result |-> Nothing ]]
    /\ pc' = "calls"
    /\ UNCHANGED <<builder, public_parameters, values, the_witness, the_statement,
                   proved, handed, verified, kzg, domain_call,
                   transcripts>>

\* one call of prove runs its next stretch: lines 39-47, then 49-131, then
\* 133-204
CallProve ==
    /\ pc = "calls"
    /\ \E c \in DOMAIN calls :
          /\ calls[c].kind = "prove"
          /\ calls[c].stage # "done"
          /\ LET pp == public_parameters.pp
                 witness == the_witness.witness
                 call == calls[c]
             IN  IF call.stage = "start"
                 THEN \E bg \in {call_squeeze_beta_gamma(
                                     call_transcript(transcripts_in_flight(c)),
                                     pp, the_statement)} :
                         calls' = [calls EXCEPT ![c] =
                                      [call EXCEPT !.stage = "beta_gamma",
                                                   !.transcript = bg.transcript,
                                                   !.locals = [bg |-> bg]]]
                 ELSE IF call.stage = "beta_gamma"
                 THEN \E left \in {prove_left(pp, witness, call.locals.bg.beta,
                                              call.locals.bg.gamma)} :
                      \E right \in {IF left.tag = "Ok"
                                    THEN prove_right(pp, witness, call.locals.bg.beta,
                                                     call.locals.bg.gamma)
                                    ELSE left} :
                         IF right.tag # "Ok"
                         THEN calls' = [calls EXCEPT ![c] =
                                           [call EXCEPT !.stage = "done", !.result = right]]
                         ELSE \E de \in {prove_squeeze_delta_epsilon(call.transcript,
                                             left.g1_affine, right.g1_affine,
                                             left.g1_affine_q, right.g1_affine_q)} :
                                 calls' = [calls EXCEPT ![c] =
                                              [call EXCEPT
                                                   !.stage = "delta_epsilon",
                                                   !.transcript = de.transcript,
                                                   !.locals = [bg |-> call.locals.bg,
                                                               left |-> left, right |-> right,
                                                               de |-> de]]]
                 ELSE \E opened \in {prove_open_at_delta(pp, witness, call.locals.left,
                                         call.locals.right, call.locals.de.delta,
                                         call.locals.de.epsilon)} :
                      \E z \in {prove_squeeze_zeta(call.transcript,
                                    opened.batch_proof_at_rand_point, opened)} :
                         calls' = [calls EXCEPT ![c] =
                                      [call EXCEPT
                                           !.stage = "done",
                                           !.transcript = z.transcript,
                                           !.result =
                                               [tag |-> "Ok",
                                                proof |-> prove_proof(pp, call.locals.left,
                                                              call.locals.right, opened,
                                                              z.zeta)]]]
    /\ UNCHANGED <<pc, builder, public_parameters, values, the_witness, the_statement,
                   proved, handed, verified, kzg, domain_call,
                   transcripts>>

\* one call of verify runs its next stretch: lines 17-25, then 27-41, then
\* 43-200
CallVerify ==
    /\ pc = "calls"
    /\ \E c \in DOMAIN calls :
          /\ calls[c].kind = "verify"
          /\ calls[c].stage # "done"
          /\ LET pp == public_parameters.pp
                 call == calls[c]
             IN  IF call.stage = "start"
                 THEN \E bg \in {call_squeeze_beta_gamma(
                                     call_transcript(transcripts_in_flight(c)),
                                     pp, the_statement)} :
                         calls' = [calls EXCEPT ![c] =
                                      [call EXCEPT !.stage = "beta_gamma",
                                                   !.transcript = bg.transcript,
                                                   !.locals = [bg |-> bg]]]
                 ELSE IF call.stage = "beta_gamma"
                 THEN \E de \in {verify_squeeze_delta_epsilon(call.transcript, handed)} :
                         calls' = [calls EXCEPT ![c] =
                                      [call EXCEPT !.stage = "delta_epsilon",
                                                   !.transcript = de.transcript,
                                                   !.locals = [bg |-> call.locals.bg,
                                                               de |-> de]]]
                 ELSE \E z \in {verify_squeeze_zeta(call.transcript, handed)} :
                         calls' = [calls EXCEPT ![c] =
                                      [call EXCEPT
                                           !.stage = "done",
                                           !.transcript = z.transcript,
                                           !.result =
                                               verify_checks(pp, the_statement, handed,
                                                   [ beta |-> call.locals.bg.beta,
                                                     gamma |-> call.locals.bg.gamma,
                                                     delta |-> call.locals.de.delta,
                                                     epsilon |-> call.locals.de.epsilon,
                                                     zeta |-> z.zeta ])]]
    /\ UNCHANGED <<pc, builder, public_parameters, values, the_witness, the_statement,
                   proved, handed, verified, kzg, domain_call,
                   transcripts>>

Next == Build \/ WitnessNew \/ GenerateStatement \/ Prove \/ Hand \/ Verify

Spec == Init /\ [][Next]_vars

\* the protocol run, then calls of prove and verify in flight together on
\* its values
InitCalls == InitWith(CallBuilders)

NextCalls == Next \/ StartCalls \/ CallProve \/ CallVerify

SpecCalls == InitCalls /\ [][NextCalls]_vars

\* ------------------------------------------------------------------------
\* Kzg::commit and Kzg::open on their own
\* ------------------------------------------------------------------------

\* usize::MAX, in a width that holds every length of the model
usize_MAX == 2^16 - 1

\* a - b on usize: with overflow checks (the dev profile) None stands for
\* the panic, without them (the release profile) the difference wraps
usize_sub(a, b, overflow_checks) ==
    IF a >= b THEN Some(a - b)
    ELSE IF overflow_checks THEN None
    ELSE Some(a - b + usize_MAX + 1)

\* Kzg::commit on any slice and polynomial, in either build profile: Panic,
\* or Ok with the group element
Kzg_commit(affine_srs, poly, overflow_checks) ==
    LET top == usize_sub(Len(affine_srs), 1, overflow_checks)
    IN  IF is_none(top) THEN Panic
        ELSE IF unwrap(top) < degree(poly) THEN Panic
        ELSE [tag |-> "Ok", value |-> msm_unchecked(affine_srs, poly)]

\* Kzg::open with the divisor X + challenge in place of X - challenge
Kzg_open_divisor_plus(affine_srs, poly, challenge, overflow_checks) ==
    LET q == divide_by_linear(poly, neg(challenge))
        proof == Kzg_commit(affine_srs, q, overflow_checks)
    IN  IF proof.tag = "Panic" THEN Panic
        ELSE [tag |-> "Ok", value |-> <<evaluate(poly, challenge), proof.value>>]

\* Kzg::open in either build profile: Panic, or Ok with (poly(challenge),
\* the commitment to poly / (X - challenge))
Kzg_open(affine_srs, poly, challenge, overflow_checks) ==
    LET q == divide_by_linear(poly, challenge)
        top == usize_sub(Len(affine_srs), 1, overflow_checks)
    IN  IF is_none(top) THEN Panic
        ELSE IF unwrap(top) < degree(q) THEN Panic
        ELSE LET proof == Kzg_commit(affine_srs, q, overflow_checks)
             IN  IF proof.tag = "Panic" THEN Panic
                 ELSE [tag |-> "Ok", value |-> <<evaluate(poly, challenge), proof.value>>]

\* the slices of an SRS handed to Kzg hold at most MaxSrs elements
MaxSrs == 3

\* the coefficient vectors drawn hold at most MaxCoeffs entries
MaxCoeffs == 4

RECURSIVE vectors_over(_, _)
\* the vectors of length len over the set of scalars
vectors_over(scalars, len) ==
    IF len = 0 THEN {<< >>}
    ELSE {Append(v, x) : v \in vectors_over(scalars, len - 1), x \in scalars}

\* the polynomials drawn: DensePolynomial::from_coefficients_vec of every
\* vector of at most MaxCoeffs entries over a few scalars
KzgPolynomials ==
    {from_coefficients_vec(v) :
        v \in UNION {vectors_over({0, 1, P - 1}, len) : len \in 0 .. MaxCoeffs}}

\* the calls of Kzg drawn: a slice of the SRS of tau, empty or not, a
\* polynomial, an opening point, and the profile of the build
KzgInputs ==
    [ affine_srs : {SubSeq(powers_of_scalars(tau, MaxSrs), 1, len) :
                       tau \in {2, 5}, len \in 0 .. MaxSrs},
      poly : KzgPolynomials,
      challenge : {0, 1, 2, 5},
      overflow_checks : BOOLEAN ]

InitKzg ==
    /\ pc = "kzg"
    /\ \E input \in KzgInputs : kzg = [input |-> input, op |-> "none", result |-> Nothing]
    /\ builder = Nothing
    /\ public_parameters = Nothing
    /\ values = Nothing
    /\ the_witness = Nothing
    /\ the_statement = Nothing
    /\ proved = Nothing
    /\ handed = Nothing
    /\ verified = Nothing
    /\ calls = Nothing
    /\ domain_call = Nothing
    /\ transcripts = Nothing

\* Kzg::commit
KzgCommit ==
    /\ pc = "kzg"
    /\ kzg.op = "none"
    /\ kzg' = [kzg EXCEPT !.op = "commit",
                          !.result = Kzg_commit(kzg.input.affine_srs, kzg.input.poly,
                                                kzg.input.overflow_checks)]
    /\ UNCHANGED <<pc, builder, public_parameters, values, the_witness, the_statement,
                   proved, handed, verified, calls, domain_call,
                   transcripts>>

\* Kzg::open
KzgOpen ==
    /\ pc = "kzg"
    /\ kzg.op = "none"
    /\ kzg' = [kzg EXCEPT !.op = "open",
                          !.result = Kzg_open(kzg.input.affine_srs, kzg.input.poly,
                                              kzg.input.challenge,
                                              kzg.input.overflow_checks)]
    /\ UNCHANGED <<pc, builder, public_parameters, values, the_witness, the_statement,
                   proved, handed, verified, calls, domain_call,
                   transcripts>>

NextKzg == KzgCommit \/ KzgOpen

SpecKzg == InitKzg /\ [][NextKzg]_vars

\* ------------------------------------------------------------------------
\* verify once more, on the proof with other values in the three fields it
\* does not read
\* ------------------------------------------------------------------------

\* verify, lines 12-200: the result, the transcript as the call left it and
\* the challenges
verify_outcome(pp, statement, proof) ==
    LET bg == verify_squeeze_beta_gamma(pp, statement)
        de == verify_squeeze_delta_epsilon(bg.transcript, proof)
        z == verify_squeeze_zeta(de.transcript, proof)
        ch == [ beta |-> bg.beta, gamma |-> bg.gamma, delta |-> de.delta,
                epsilon |-> de.epsilon, zeta |-> z.zeta ]
    IN  [ result |-> verify_checks(pp, statement, proof, ch),
          transcript |-> z.transcript,
          challenges |-> ch ]

\* verify on a proof that differs from the one verified only in
\* pl_at_delta, pr_at_delta and pm_at_delta, each put to 0 or -1
VerifyChanged ==
    /\ pc = "verified"
    /\ \E pl \in {0, P - 1}, pr \in {0, P - 1}, pm \in {0, P - 1} :
       \E changed \in {[handed EXCEPT !.pl_at_delta = pl, !.pr_at_delta = pr,
                                      !.pm_at_delta = pm]} :
          /\ changed # handed
          /\ handed' = changed
          /\ \E outcome \in {verify_outcome(public_parameters.pp, the_statement, changed)} :
                verified' = outcome
    /\ pc' = "reverified"
    /\ UNCHANGED <<builder, public_parameters, values, the_witness, the_statement,
                   proved, calls, kzg, domain_call, transcripts>>

NextChanged == Next \/ VerifyChanged

SpecChanged == Init /\ [][NextChanged]_vars

\* ------------------------------------------------------------------------
\* The domains made from a generator (src/src/domain.rs)
\* ------------------------------------------------------------------------

\* the domain sizes drawn run up to MaxDomainSize
MaxDomainSize == 8

\* the sizes handed to create_domain_with_generator: every size up to
\* MaxDomainSize, the largest size within the two-adicity, and the first
\* power of two beyond it
DomainSizes == (0 .. MaxDomainSize) \cup {2 ^ TWO_ADICITY, 2 ^ (TWO_ADICITY + 1)}

\* create_domain_with_generator in either build: with debug assertions
\* debug_assert_eq!(group_gen.pow([size]), F::one()) of line 23 panics on a
\* generator whose size-th power is not 1, without them the line is compiled
\* out
create_domain_with_generator_in(group_gen, size, debug_assertions) ==
    IF ~is_power_of_two(size) THEN create_domain_with_generator(group_gen, size)
    ELSE IF trailing_zeros(size) > TWO_ADICITY THEN create_domain_with_generator(group_gen, size)
    ELSE IF debug_assertions /\ pow(group_gen, size) # 1 THEN Panic
    ELSE create_domain_with_generator(group_gen, size)

\* build's call of create_domain_and_vanishing_poly_commitment with the
\* generator the caller gave the builder, after validate_input passed the size
create_domain_of_builder(group_gen, size, debug_assertions) ==
    IF validate_input(size, None) # "Ok" THEN Err(validate_input(size, None))
    ELSE IF create_domain_with_generator_in(group_gen, size, debug_assertions).tag = "Panic"
    THEN Panic
    ELSE LET made == create_domain_and_vanishing_poly_commitment(
                         Some(group_gen), size, unsafe_setup_from_tau(size, 5)[2])
         IN  IF made.tag = "Err" THEN made ELSE [tag |-> "Ok", domain |-> made.domain]

InitDomain ==
    /\ pc = "domain"
    /\ \E group_gen \in 0 .. P - 1, size \in DomainSizes, debug_assertions \in BOOLEAN :
          domain_call = [ group_gen |-> group_gen, size |-> size,
                          debug_assertions |-> debug_assertions,
                          op |-> "none", result |-> Nothing ]
    /\ builder = Nothing
    /\ public_parameters = Nothing
    /\ values = Nothing
    /\ the_witness = Nothing
    /\ the_statement = Nothing
    /\ proved = Nothing
    /\ handed = Nothing
    /\ verified = Nothing
    /\ calls = Nothing
    /\ kzg = Nothing
    /\ transcripts = Nothing

\* create_domain_with_generator, called directly
CreateDomainWithGenerator ==
    /\ pc = "domain"
    /\ domain_call.op = "none"
    /\ domain_call' =
           [domain_call EXCEPT
               !.op = "create_domain_with_generator",
               !.result = create_domain_with_generator_in(
                              domain_call.group_gen, domain_call.size,
                              domain_call.debug_assertions)]
    /\ UNCHANGED <<pc, builder, public_parameters, values, the_witness, the_statement,
                   proved, handed, verified, calls, kzg, transcripts>>

\* the same through the builder's domain_generator_l, _r or _i
CreateDomainOfBuilder ==
    /\ pc = "domain"
    /\ domain_call.op = "none"
    /\ domain_call' =
           [domain_call EXCEPT
               !.op = "build",
               !.result = create_domain_of_builder(
                              domain_call.group_gen, domain_call.size,
                              domain_call.debug_assertions)]
    /\ UNCHANGED <<pc, builder, public_parameters, values, the_witness, the_statement,
                   proved, handed, verified, calls, kzg, transcripts>>

NextDomain == CreateDomainWithGenerator \/ CreateDomainOfBuilder

SpecDomain == InitDomain /\ [][NextDomain]_vars

\* ------------------------------------------------------------------------
\* Two transcripts side by side (src/src/transcript.rs)
\* ------------------------------------------------------------------------

\* each of the two transcripts undergoes at most MaxOps operations
MaxOps == 3

\* the operations drawn: append_element of one of two values under the
\* label of the statement, squeeze_challenge under beta or gamma
TranscriptRequests ==
    { [op |-> "append_element", label |-> Label.Statement, value |-> 1],
      [op |-> "append_element", label |-> Label.Statement, value |-> 2],
      [op |-> "squeeze_challenge", label |-> Label.ChallengeBeta, value |-> 0],
      [op |-> "squeeze_challenge", label |-> Label.ChallengeGamma, value |-> 0] }

\* two transcripts after Transcript::new, each with the calls made on it:
\* each call's request, the 64 bytes it drew and the challenge it returned
\* (0 for an append)
InitTranscripts ==
    /\ pc = "transcripts"
    /\ transcripts = [a |-> [transcript |-> Transcript_new, log |-> << >>],
                      b |-> [transcript |-> Transcript_new, log |-> << >>]]
    /\ builder = Nothing
    /\ public_parameters = Nothing
    /\ values = Nothing
    /\ the_witness = Nothing
    /\ the_statement = Nothing
    /\ proved = Nothing
    /\ handed = Nothing
    /\ verified = Nothing
    /\ calls = Nothing
    /\ kzg = Nothing
    /\ domain_call = Nothing

\* Transcript::append_element on one of the two transcripts
AppendElement ==
    /\ pc = "transcripts"
    /\ \E side \in {"a", "b"}, request \in TranscriptRequests :
          /\ request.op = "append_element"
          /\ Len(transcripts[side].log) < MaxOps
          /\ transcripts' =
                 [transcripts EXCEPT ![side] =
                     [ transcript |-> append_element(transcripts[side].transcript,
                                                     request.label, request.value),
                       log |-> Append(transcripts[side].log,
                                      [request |-> request, bytes |-> 0, challenge |-> 0]) ]]
    /\ UNCHANGED <<pc, builder, public_parameters, values, the_witness, the_statement,
                   proved, handed, verified, calls, kzg, domain_call>>

\* Transcript::squeeze_challenge on one of the two transcripts
SqueezeChallenge ==
    /\ pc = "transcripts"
    /\ \E side \in {"a", "b"}, request \in TranscriptRequests :
          /\ request.op = "squeeze_challenge"
          /\ Len(transcripts[side].log) < MaxOps
          /\ \E drawn \in {challenge_bytes(transcripts[side].transcript, request.label)} :
             \E squeezed_now \in {squeeze_challenge(transcripts[side].transcript,
                                                    request.label)} :
                transcripts' =
                    [transcripts EXCEPT ![side] =
                        [ transcript |-> squeezed_now.transcript,
                          log |-> Append(transcripts[side].log,
                                         [request |-> request, bytes |-> drawn.bytes,
                                          challenge |-> squeezed_now.challenge]) ]]
    /\ UNCHANGED <<pc, builder, public_parameters, values, the_witness, the_statement,
                   proved, handed, verified, calls, kzg, domain_call>>

NextTranscripts == AppendElement \/ SqueezeChallenge

SpecTranscripts == InitTranscripts /\ [][NextTranscripts]_vars

\* ------------------------------------------------------------------------
\* create_sub_domain (src/src/domain.rs)
\* ------------------------------------------------------------------------

\* the segment sizes drawn run up to MaxSegmentSize, past the largest domain
MaxSegmentSize == 17

\* create_sub_domain: a result, Ok with the domain or Err
create_sub_domain(original_domain, order, segment_size) ==
    IF segment_size = 0 THEN Err("InvalidSegmentSize")
    ELSE IF segment_size = 1 THEN [tag |-> "Ok", domain |-> original_domain]
    ELSE IF ~is_power_of_two(order) THEN Err("InvalidEvaluationDomainSize")
    ELSE IF segment_size > original_domain.size THEN Err("InvalidSegmentSize")
    ELSE IF segment_size = original_domain.size
    THEN IF is_none(Radix2EvaluationDomain_new(1))
         THEN Err("FailedToCreateEvaluationDomain")
         ELSE [tag |-> "Ok", domain |-> unwrap(Radix2EvaluationDomain_new(1))]
    ELSE IF trailing_zeros(order) > TWO_ADICITY THEN Err("InvalidEvaluationDomainSize")
    ELSE LET group_gen == roots_of_unity(original_domain)[segment_size + 1]
         IN  IF is_none(inverse(from_u64(order))) \/ is_none(inverse(group_gen))
             THEN Err("FailedToInverseFieldElement")
             ELSE [tag |-> "Ok",
                   domain |-> Radix2EvaluationDomain(order, group_gen,
                                  unwrap(inverse(from_u64(order))),
                                  unwrap(inverse(group_gen)))]

\* the original domains drawn are Radix2EvaluationDomain::new of every size
\* within the two-adicity (lib.rs line 66 takes 16)
InitSubDomain ==
    /\ pc = "sub_domain"
    /\ \E original_domain \in {unwrap(Radix2EvaluationDomain_new(2 ^ k)) :
                                  k \in 0 .. TWO_ADICITY},
          order \in DomainSizes, segment_size \in 0 .. MaxSegmentSize :
          domain_call = [ original_domain |-> original_domain, order |-> order,
                          segment_size |-> segment_size,
                          op |-> "none", result |-> Nothing ]
    /\ builder = Nothing
    /\ public_parameters = Nothing
    /\ values = Nothing
    /\ the_witness = Nothing
    /\ the_statement = Nothing
    /\ proved = Nothing
    /\ handed = Nothing
    /\ verified = Nothing
    /\ calls = Nothing
    /\ kzg = Nothing
    /\ transcripts = Nothing

\* create_sub_domain
CreateSubDomain ==
    /\ pc = "sub_domain"
    /\ domain_call.op = "none"
    /\ domain_call' =
           [domain_call EXCEPT
               !.op = "create_sub_domain",
               !.result = create_sub_domain(domain_call.original_domain,
                                            domain_call.order, domain_call.segment_size)]
    /\ UNCHANGED <<pc, builder, public_parameters, values, the_witness, the_statement,
                   proved, handed, verified, calls, kzg, transcripts>>

NextSubDomain == CreateSubDomain

SpecSubDomain == InitSubDomain /\ [][NextSubDomain]_vars

\* ------------------------------------------------------------------------
\* powers_of_scalars chunk by chunk (src/src/kzg.rs)
\* ------------------------------------------------------------------------

\* the small sizes drawn run up to MaxPowers
MaxPowers == 6

\* the closure of flat_map for one chunk_index: the chunk's powers, from
\* s^start_power on
powers_chunk(s, size, chunk_index) ==
    LET start_power == chunk_index * CHUNK_SIZE
    IN  collect([k \in 1 .. min(CHUNK_SIZE, size - start_power) |->
                    mul(pow(s, start_power), pow(s, k - 1))])

\* the chunks joined in the order they were finished
collect_as_completed(chunks, completed) == flatten([k \in 1 .. Len(completed) |-> chunks[completed[k]]])

\* flat_map(..).collect() on the range 0 .. num_chunks: the chunks joined in
\* the order of their indices, whichever was finished first
collect_in_order(chunks, completed) == flatten([k \in 1 .. Len(completed) |-> chunks[k - 1]])

\* the sizes drawn are the small ones, and those around one and two chunks
InitPowers ==
    /\ pc = "powers"
    /\ \E s \in {0, 1, 2, 3, P - 1},
          size \in (0 .. MaxPowers)
                   \cup {CHUNK_SIZE - 1, CHUNK_SIZE, CHUNK_SIZE + 1,
                         2 * CHUNK_SIZE, 2 * CHUNK_SIZE + 1} :
          kzg = [ s |-> s, size |-> size,
                  num_chunks |-> (size + CHUNK_SIZE - 1) \div CHUNK_SIZE,
                  chunks |-> << >>, completed |-> << >>,
                  op |-> "none", result |-> Nothing ]
    /\ builder = Nothing
    /\ public_parameters = Nothing
    /\ values = Nothing
    /\ the_witness = Nothing
    /\ the_statement = Nothing
    /\ proved = Nothing
    /\ handed = Nothing
    /\ verified = Nothing
    /\ calls = Nothing
    /\ domain_call = Nothing
    /\ transcripts = Nothing

\* one worker finishes the chunk of one index not finished yet
ComputeChunk ==
    /\ pc = "powers"
    /\ kzg.op = "none"
    /\ \E chunk_index \in 0 .. kzg.num_chunks - 1 :
          /\ chunk_index \notin DOMAIN kzg.chunks
          /\ kzg' = [kzg EXCEPT
                        !.chunks = [c \in DOMAIN kzg.chunks \cup {chunk_index} |->
                                       IF c = chunk_index
                                       THEN powers_chunk(kzg.s, kzg.size, chunk_index)
                                       ELSE kzg.chunks[c]],
                        !.completed = Append(kzg.completed, chunk_index)]
    /\ UNCHANGED <<pc, builder, public_parameters, values, the_witness, the_statement,
                   proved, handed, verified, calls, domain_call, transcripts>>

\* every chunk finished: collect, Vec::truncate(size), return
CollectPowers ==
    /\ pc = "powers"
    /\ kzg.op = "none"
    /\ Len(kzg.completed) = kzg.num_chunks
    /\ \E result \in {collect_in_order(kzg.chunks, kzg.completed)} :
          kzg' = [kzg EXCEPT
                     !.op = "powers_of_scalars",
                     !.result = IF Len(result) > kzg.size
                                THEN SubSeq(result, 1, kzg.size) ELSE result]
    /\ UNCHANGED <<pc, builder, public_parameters, values, the_witness, the_statement,
                   proved, handed, verified, calls, domain_call, transcripts>>

NextPowers == ComputeChunk \/ CollectPowers

SpecPowers == InitPowers /\ [][NextPowers]_vars

\* the calls to build alone, on every builder a caller may hand it
InitBuild == InitWith(BuildBuilders)

NextBuild == Build

SpecBuild == InitBuild /\ [][NextBuild]_vars

\* ------------------------------------------------------------------------
\* Properties of the protocol run
\* ------------------------------------------------------------------------

\* left_values[i] = right_values[mapping(i)] for every i in positions_left
consistent ==
    \A i \in entries(public_parameters.pp.positions_left) :
        values.left_values[i + 1]
            = values.right_values[get(public_parameters.pp.position_mappings, i) + 1]

\* verify has returned, and the proof it was handed is the prover's own
verified_own_proof == pc = "verified" /\ handed = proved.proof

\* C1: completeness. For parameters build accepted and a witness whose
\* designated pairs agree, verify on the proof prove returned for the derived
\* statement returns Ok (the verifier's two inversions of delta^N - 1 having
\* succeeded).
Completeness ==
    verified_own_proof /\ consistent /\ verified.result # "FailedToInverseFieldElement"
        => verified.result = "Ok"

\* C3: transcript replay. On the prover's own proof, verify performs the
\* prover's sequence of transcript operations, labels and values alike, and
\* so computes the prover's five challenges.
TranscriptReplay ==
    verified_own_proof
        => /\ verified.transcript.ops = proved.transcript.ops
           /\ verified.challenges = proved.challenges

\* the delta pairing equation of verify, on the prover's proof under the
\* prover's own challenges
delta_equation_on_own_proof ==
    LET pp == public_parameters.pp
        ch == proved.challenges
        zl == inverse(sub(pow(ch.delta, pp.left_element_size), 1))
        zr == inverse(sub(pow(ch.delta, pp.right_element_size), 1))
    IN  verify_pairing_at_delta(pp, the_statement, proved.proof, ch,
            verify_fr_ql_at_delta(pp, proved.proof, ch, unwrap(zl)),
            verify_fr_qr_at_delta(pp, proved.proof, ch, unwrap(zr)))

\* delta^N_L - 1 and delta^N_R - 1 are invertible for the prover's delta
delta_off_domains ==
    /\ pow(proved.challenges.delta, public_parameters.pp.left_element_size) # 1
    /\ pow(proved.challenges.delta, public_parameters.pp.right_element_size) # 1

\* C5: the batched opening at delta. The verifier batches the nine
\* polynomials L, R, Ql, Qr, LV, RV, PL, PR, PM in the prover's order with
\* the prover's powers of epsilon, so the delta pairing equation holds on
\* every batch proof prove produced, under the challenges it was made with.
BatchedOpeningAtDelta ==
    pc = "proved" /\ delta_off_domains
        => /\ [k \in 1 .. Len(verify_g1_list(public_parameters.pp, the_statement, proved.proof))
                  |-> verify_g1_list(public_parameters.pp, the_statement, proved.proof)[k].poly]
                = <<"L", "R", "Ql", "Qr", "LV", "RV", "PL", "PR", "PM">>
           /\ delta_equation_on_own_proof

\* C2: soundness on a mutated pair. When one designated pair of the witness
\* disagrees, verify returns an error on the proof prove made for it, and
\* also on that proof with its openings forged.
MutatedPairRejected ==
    pc = "verified" /\ ~consistent => verified.result # "Ok"

MutatedPairRejectedWitness ==
    verified_own_proof /\ ~consistent /\ verified.result = "Pairing1Failed"

\* the three checks of verify on the proof handed, under the challenges
\* verify computed
inverses_exist ==
    /\ pow(verified.challenges.delta, public_parameters.pp.left_element_size) # 1
    /\ pow(verified.challenges.delta, public_parameters.pp.right_element_size) # 1

check_at_delta ==
    LET pp == public_parameters.pp
        ch == verified.challenges
        zl == inverse(sub(pow(ch.delta, pp.left_element_size), 1))
        zr == inverse(sub(pow(ch.delta, pp.right_element_size), 1))
    IN  /\ inverses_exist
        /\ verify_pairing_at_delta(pp, the_statement, handed, ch,
               verify_fr_ql_at_delta(pp, handed, ch, unwrap(zl)),
               verify_fr_qr_at_delta(pp, handed, ch, unwrap(zr)))

check_at_zero == verify_pairing_at_zero(public_parameters.pp, handed, verified.challenges)

check_grand_sum ==
    mul(handed.l_at_zero, from_u64(public_parameters.pp.left_element_size))
        = mul(handed.r_at_zero, from_u64(public_parameters.pp.right_element_size))

\* the error of the first of the three checks that fails, Ok if none does
first_failing_check ==
    IF ~check_at_delta THEN "Pairing1Failed"
    ELSE IF ~check_at_zero THEN "Pairing2Failed"
    ELSE IF ~check_grand_sum THEN "EqualityCheckFailed"
    ELSE "Ok"

\* C4: verify rejects with FailedToInverseFieldElement when delta^N_L = 1 or
\* delta^N_R = 1; otherwise it returns the error of the first failing check
\* in the order opening at delta, opening at zero, grand-sum equality, and
\* Ok only when all three pass.
ChecksInOrder ==
    pc = "verified"
        => verified.result = IF ~inverses_exist THEN "FailedToInverseFieldElement"
                             ELSE first_failing_check

\* C4 as stated: every rejection is the error of the first failing check.
ChecksInOrderAsStated ==
    pc = "verified" => verified.result = first_failing_check

ChecksInOrderWitness ==
    /\ pc = "verified"
    /\ verified.result = "Pairing2Failed"
    /\ ~check_grand_sum

\* the sum over the designated left positions of 1/(beta + LV_i + gamma tag_i)
reciprocal_sum_left ==
    LET pp == public_parameters.pp
        terms == [k \in 1 .. Len(pp.positions_left) |->
                     unwrap(inverse(left_eval(pp, the_witness.witness, proved.challenges.beta,
                                              proved.challenges.gamma, pp.positions_left[k])))]
    IN  sum_to(terms, Len(terms))

\* the sum over the designated right positions of 1/(beta + RV_j + gamma tag_j)
reciprocal_sum_right ==
    LET pp == public_parameters.pp
        terms == [k \in 1 .. Len(pp.positions_right) |->
                     unwrap(inverse(right_eval(pp, the_witness.witness, proved.challenges.beta,
                                               proved.challenges.gamma, pp.positions_right[k])))]
    IN  sum_to(terms, Len(terms))

\* C6: the grand-sum check. N_L L(0) and N_R R(0) of the prover's L and R
\* are the two reciprocal sums, and verify, when it reaches its last check,
\* returns EqualityCheckFailed exactly when the two sums differ.
GrandSum ==
    pc \in {"proved", "handed", "verified"}
        => /\ mul(from_u64(public_parameters.pp.left_element_size),
                  evaluate(proved.polys.l, 0)) = reciprocal_sum_left
           /\ mul(from_u64(public_parameters.pp.right_element_size),
                  evaluate(proved.polys.r, 0)) = reciprocal_sum_right
           /\ verify_sumcheck(public_parameters.pp, proved.proof)
                  <=> reciprocal_sum_left = reciprocal_sum_right
           /\ pc = "verified" /\ verified.result \in {"Ok", "EqualityCheckFailed"}
                  => (verified.result = "EqualityCheckFailed"
                         <=> reciprocal_sum_left # reciprocal_sum_right)

GrandSumWitness ==
    /\ pc = "verified"
    /\ verified.result = "EqualityCheckFailed"
    /\ reciprocal_sum_left # reciprocal_sum_right
    /\ public_parameters.pp.left_element_size # public_parameters.pp.right_element_size

\* the positions in a transcript log of the operations op under label
positions_of(ops, op, label) ==
    {k \in 1 .. Len(ops) : ops[k].op = op /\ ops[k].label = label}

\* the labels of the squeezes of a transcript log, in order
squeezed(ops) ==
    LET at == {k \in 1 .. Len(ops) : ops[k].op = "challenge"}
        nth(n) == CHOOSE k \in at : Cardinality({j \in at : j < k}) = n - 1
    IN  [n \in 1 .. Cardinality(at) |-> ops[nth(n)].label]

builder_sizes ==
    <<builder.left_element_size, builder.right_element_size, builder.position_vec_size>>

\* the errors named for the defects the builder has
named_errors ==
    {e \in {"MissingParameter", "InputShouldBePowerOfTwo", "LeftIndicesCannotBeNone",
            "RightIndicesCannotBeNone", "IndexMappingCannotBeNone"} :
        \/ e = "MissingParameter" /\ \E k \in 1 .. 3 : is_none(builder_sizes[k])
        \/ e = "InputShouldBePowerOfTwo"
               /\ \E k \in 1 .. 3 : /\ is_some(builder_sizes[k])
                                    /\ ~is_power_of_two(unwrap(builder_sizes[k]))
        \/ e = "LeftIndicesCannotBeNone" /\ is_none(builder.positions_left)
        \/ e = "RightIndicesCannotBeNone" /\ is_none(builder.positions_right)
        \/ e = "IndexMappingCannotBeNone" /\ is_none(builder.position_mappings)}

\* the position-vector size is a power of two above both other sizes
position_vec_size_over_limit ==
    /\ \A k \in 1 .. 3 : is_some(builder_sizes[k]) /\ is_power_of_two(unwrap(builder_sizes[k]))
    /\ unwrap(builder.position_vec_size)
           > max(unwrap(builder.left_element_size), unwrap(builder.right_element_size))

valid_positions ==
    /\ is_some(builder.positions_left)
    /\ is_some(builder.positions_right)
    /\ is_some(builder.position_mappings)
    /\ Len(unwrap(builder.positions_left)) = Len(unwrap(builder.positions_right))
    /\ \A i \in entries(unwrap(builder.positions_left)) :
          /\ i < unwrap(builder.left_element_size)
          /\ \E kv \in entries(unwrap(builder.position_mappings)) : kv[1] = i
    /\ \A i \in entries(unwrap(builder.positions_right)) :
          i < unwrap(builder.right_element_size)

\* C9: build validates the position inputs. It produces PublicParameters
\* only for valid position inputs, and returns an error value for every
\* other input.
PositionsValidated ==
    pc # "builder" /\ \A k \in 1 .. 3 : is_some(builder_sizes[k])
        => /\ public_parameters.tag = "Ok" => valid_positions
           /\ ~valid_positions => public_parameters.tag = "Err"

\* ------------------------------------------------------------------------
\* Properties of the boundary sizes, the SRS and the stored polynomials
\* ------------------------------------------------------------------------

\* N_L = N_R = 2, both position vectors {0, 1}, the identity mapping
boundary_sizes ==
    /\ builder.left_element_size = Some(2)
    /\ builder.right_element_size = Some(2)
    /\ builder.positions_left = Some(<<0, 1>>)
    /\ builder.positions_right = Some(<<0, 1>>)
    /\ builder.position_mappings = Some(<< <<0, 0>>, <<1, 1>> >>)

\* the arrays handed to Witness::new are equal and of length 2
equal_values ==
    /\ values # Nothing
    /\ Len(values.left_values) = 2
    /\ values.left_values = values.right_values

\* C11: boundary sizes. With N_L = N_R = 2, full position vectors and the
\* identity mapping, build, Witness::new and prove complete for every
\* witness with equal arrays (prove short of an inversion failure), and
\* verify returns Ok on prove's proof (short of an inversion failure).
BoundarySizes ==
    boundary_sizes
        => /\ pc \notin {"build_failed", "aborted"}
           /\ equal_values
                 => /\ pc # "witness_failed"
                    /\ pc = "prove_failed" => proved.err = "FailedToInverseFieldElement"
                    /\ verified_own_proof /\ verified.result # "FailedToInverseFieldElement"
                          => verified.result = "Ok"

\* the scalars tau may be for the builder: the one set, or one the rng yields
builder_taus == IF is_some(builder.tau) THEN {unwrap(builder.tau)} ELSE RngScalars

\* srs_vec holds the powers tau^0 .. tau^(len - 1) of the generator, in order
powers_in_order(srs_vec, tau, len) ==
    /\ Len(srs_vec) = len
    /\ \A k \in 0 .. len - 1 : srs_vec[k + 1] = pow(tau, k)

\* C12: the SRS. In the PublicParameters build returns, g1_srs has length
\* max(N_L, N_R) + 1 and g2_srs has length max(N_L, N_R) + 2, and both hold
\* the powers of tau times the generator in increasing order.
SrsPowers ==
    pc = "built"
        => LET pp == public_parameters.pp
               top == max(pp.left_element_size, pp.right_element_size)
           IN  \E tau \in builder_taus :
                  /\ powers_in_order(pp.g1_affine_srs, tau, top + 1)
                  /\ powers_in_order(pp.g2_affine_srs, tau, top + 2)

\* C12 as stated: g1_srs and g2_srs both have length max(N_L, N_R) + 1.
SrsPowersAsStated ==
    pc = "built"
        => LET pp == public_parameters.pp
               top == max(pp.left_element_size, pp.right_element_size)
           IN  \E tau \in builder_taus :
                  /\ powers_in_order(pp.g1_affine_srs, tau, top + 1)
                  /\ powers_in_order(pp.g2_affine_srs, tau, top + 1)

SrsPowersWitness ==
    /\ pc = "built"
    /\ is_none(builder.tau)
    /\ builder.left_element_size = Some(4)
    /\ builder.right_element_size = Some(2)
    /\ public_parameters.pp.g1_affine_srs = <<1, 3, 9, 10, 13>>

\* C13: calls in flight together. Every call of prove and verify reads the
\* values it was given and leaves them as they were, works on a transcript
\* of its own, and returns, with the transcript it ends on, what the same
\* call returns when it runs alone.
CallsIsolated ==
    pc = "calls"
        => \A c \in DOMAIN calls :
              /\ calls[c].given = given_to_calls
              /\ calls[c].stage = "done"
                    => IF calls[c].kind = "prove"
                       THEN /\ calls[c].result.tag = proved.tag
                            /\ calls[c].result.proof = proved.proof
                            /\ calls[c].transcript = proved.transcript
                       ELSE /\ calls[c].result = verified.result
                            /\ calls[c].transcript = verified.transcript

CallsIsolatedWitness ==
    /\ pc = "calls"
    /\ Len(calls) = 2
    /\ calls[1].kind = "prove" /\ calls[1].stage = "done"
    /\ calls[2].kind = "verify" /\ calls[2].stage = "done"
    /\ calls[1].transcript # calls[2].transcript

\* ------------------------------------------------------------------------
\* Properties of Kzg
\* ------------------------------------------------------------------------

\* the scalar tau of a non-empty slice of an SRS with at least two elements
\* is its second element; of a one-element slice, any
slice_taus(affine_srs) == IF Len(affine_srs) >= 2 THEN {affine_srs[2]} ELSE {2, 5}

\* C14: the KZG opening. For a polynomial p of degree below the length of
\* the SRS and a point z, Kzg::open returns y = p(z) and a proof with
\* commit(srs, p) - [y]G1 = [tau - z] proof, the pairing equation of the
\* opening, in either build profile.
KzgOpening ==
    /\ pc = "kzg"
    /\ kzg.op = "open"
    /\ degree(kzg.input.poly) < Len(kzg.input.affine_srs)
    => /\ kzg.result.tag = "Ok"
       /\ kzg.result.value[1] = evaluate(kzg.input.poly, kzg.input.challenge)
       /\ \A tau \in slice_taus(kzg.input.affine_srs) :
             pairing(sub(evaluate(kzg.input.poly, tau), kzg.result.value[1]), 1)
                 = pairing(kzg.result.value[2], sub(tau, kzg.input.challenge))

KzgOpeningWitness ==
    /\ pc = "kzg"
    /\ kzg.op = "open"
    /\ Len(kzg.input.poly) = 3
    /\ Len(kzg.input.affine_srs) = 3
    /\ kzg.result.tag = "Ok"
    /\ kzg.result.value[2] # 0

\* C20: the abort of Kzg::commit. Kzg::commit panics whenever the degree of
\* the polynomial is at least the number of SRS elements, the empty SRS
\* included, and otherwise returns the sum of coeff_k * srs[k].
CommitAborts ==
    pc = "kzg" /\ kzg.op = "commit"
        => IF degree(kzg.input.poly) >= Len(kzg.input.affine_srs)
           THEN kzg.result = Panic
           ELSE /\ kzg.result.tag = "Ok"
                /\ kzg.result.value
                       = sum_to([k \in 1 .. Len(kzg.input.poly) |->
                                    mul(kzg.input.poly[k], kzg.input.affine_srs[k])],
                                Len(kzg.input.poly))

\* ------------------------------------------------------------------------
\* Properties of the polynomials of prove and build
\* ------------------------------------------------------------------------

\* prove has returned a proof
prove_returned_proof == pc \in {"proved", "handed", "verified"} /\ proved.tag = "Ok"

indicator_on(poly, domain, positions) ==
    \A i \in 0 .. domain.size - 1 :
        evaluate(poly, element(domain, i)) = IF i \in entries(positions) THEN 1 ELSE 0

\* C17: the indicator polynomials. For every accepted combination of N_L,
\* N_R and position-vector size, the PL stored by build is 1 at the i-th
\* element of domain_l for i in positions_left and 0 at every other element
\* of domain_l, and PR is 1 at the j-th element of domain_r for j in
\* positions_right and 0 at every other element of domain_r.
IndicatorPolynomials ==
    pc = "built" =>
        LET pp == public_parameters.pp
        IN  /\ indicator_on(pp.poly_positions_left, pp.domain_l, pp.positions_left)
            /\ indicator_on(pp.poly_positions_right, pp.domain_r, pp.positions_right)

left_numerator(x) ==
    LET pp == public_parameters.pp
    IN  sub(mul(evaluate(proved.polys.l, x),
                add(add(proved.challenges.beta,
                        evaluate(the_witness.witness.poly_left_values, x)),
                    mul(proved.challenges.gamma, evaluate(pp.poly_position_mappings, x)))),
            evaluate(pp.poly_positions_left, x))

\* the right numerator R*(beta + RV + gamma*X) - PR of prove's proof at x
right_numerator(x) ==
    LET pp == public_parameters.pp
    IN  sub(mul(evaluate(proved.polys.r, x),
                add(add(proved.challenges.beta,
                        evaluate(the_witness.witness.poly_right_values, x)),
                    mul(proved.challenges.gamma, x))),
            evaluate(pp.poly_positions_right, x))

\* the numerators are zero at every element of their domains
numerators_vanish ==
    LET pp == public_parameters.pp
    IN  /\ \A i \in 0 .. pp.left_element_size - 1 : left_numerator(element(pp.domain_l, i)) = 0
        /\ \A j \in 0 .. pp.right_element_size - 1 : right_numerator(element(pp.domain_r, j)) = 0

\* Ql*(X^N_L - 1) and Qr*(X^N_R - 1) are the numerators: polynomials of
\* degree below P that agree at every scalar
quotients_exact ==
    LET pp == public_parameters.pp
    IN  \A x \in 0 .. P - 1 :
            /\ mul(evaluate(proved.polys.ql, x), sub(pow(x, pp.left_element_size), 1))
                   = left_numerator(x)
            /\ mul(evaluate(proved.polys.qr, x), sub(pow(x, pp.right_element_size), 1))
                   = right_numerator(x)

\* the values verify reconstructs for Ql(delta) and Qr(delta) from prove's
\* proof under prove's challenges are the quotients' evaluations at delta
quotients_reconstructed ==
    LET pp == public_parameters.pp
        ch == proved.challenges
        zl == sub(pow(ch.delta, pp.left_element_size), 1)
        zr == sub(pow(ch.delta, pp.right_element_size), 1)
    IN  zl # 0 /\ zr # 0 =>
            /\ verify_fr_ql_at_delta(pp, proved.proof, ch, unwrap(inverse(zl)))
                   = evaluate(proved.polys.ql, ch.delta)
            /\ verify_fr_qr_at_delta(pp, proved.proof, ch, unwrap(inverse(zr)))
                   = evaluate(proved.polys.qr, ch.delta)

\* C16: the quotients. On every run of prove that reaches the quotient step
\* the left numerator is zero at every element of domain_l and the right
\* numerator at every element of domain_r, Ql*(X^N_L - 1) and Qr*(X^N_R - 1)
\* equal the numerators, and the values verify reconstructs for Ql(delta)
\* and Qr(delta) equal the committed quotients' evaluations.
QuotientsExact ==
    prove_returned_proof => numerators_vanish /\ quotients_exact /\ quotients_reconstructed

\* ------------------------------------------------------------------------
\* Properties of prove's failure
\* ------------------------------------------------------------------------

\* beta + value + gamma*tag is 0 at a designated left position, under the
\* beta and gamma prove squeezes for the parameters and the statement
left_inversion_fails ==
    LET pp == public_parameters.pp
        bg == prove_squeeze_beta_gamma(pp, the_statement)
    IN  \E i \in entries(pp.positions_left) :
            add(add(bg.beta, the_witness.witness.left_values[i + 1]),
                mul(bg.gamma, element(pp.domain_r, get(pp.position_mappings, i)))) = 0

\* the same at a designated right position
right_inversion_fails ==
    LET pp == public_parameters.pp
        bg == prove_squeeze_beta_gamma(pp, the_statement)
    IN  \E j \in entries(pp.positions_right) :
            add(add(bg.beta, the_witness.witness.right_values[j + 1]),
                mul(bg.gamma, element(pp.domain_r, j))) = 0

\* prove has returned or aborted
prove_ended == pc \in {"proved", "prove_failed", "handed", "verified"} \/ proved # Nothing

\* C19: the inversion failure. If beta + value + gamma*tag = 0 at a
\* designated left or right position, prove returns
\* FailedToInverseFieldElement and no Proof, does not abort, and the
\* transcript of the run ends with the squeeze of gamma (the request and the
\* challenge it records): nothing further is appended to it.
InversionFailure ==
    prove_ended /\ (left_inversion_fails \/ right_inversion_fails)
        => /\ pc = "prove_failed"
           /\ proved.tag = "Err"
           /\ proved.err = "FailedToInverseFieldElement"
           /\ "proof" \notin DOMAIN proved
           /\ LET ops == proved.transcript.ops
              IN  /\ squeezed(ops) = <<Label.ChallengeBeta, Label.ChallengeGamma>>
                  /\ positions_of(ops, "challenge", Label.ChallengeGamma) = {Len(ops) - 1}
                  /\ positions_of(ops, "append", Label.ChallengeGamma) = {Len(ops)}
                  /\ \A k \in 1 .. Len(ops) :
                        ops[k].op = "append"
                            => ops[k].label \in {Label.PublicParameters, Label.Statement,
                                                 Label.ChallengeBeta, Label.ChallengeGamma}

InversionFailureWitness ==
    /\ pc = "prove_failed"
    /\ right_inversion_fails
    /\ ~left_inversion_fails
    /\ Len(public_parameters.pp.positions_right) = 2

\* ------------------------------------------------------------------------
\* Properties of the domains
\* ------------------------------------------------------------------------

\* the domain's size and generator have their inverses, and the generator
\* has order exactly the size
well_formed_domain(domain) ==
    /\ mul(from_u64(domain.size), domain.size_inv) = 1
    /\ mul(domain.group_gen, domain.group_gen_inv) = 1
    /\ pow(domain.group_gen, domain.size) = 1
    /\ \A k \in 1 .. domain.size - 1 : pow(domain.group_gen, k) # 1

\* C21: create_domain_with_generator. It returns
\* InvalidEvaluationDomainSize when the size is not a power of two or its
\* logarithm exceeds the two-adicity, and every domain it returns, called
\* directly or through the builder, has size*size_inv = 1, g*g_inv = 1,
\* g^size = 1 and g^k # 1 for 0 < k < size.
DomainWellFormed ==
    pc = "domain" /\ domain_call.op \in {"create_domain_with_generator", "build"}
        => /\ domain_call.op = "create_domain_with_generator"
              /\ (\/ ~is_power_of_two(domain_call.size)
                  \/ domain_call.size > 2 ^ TWO_ADICITY)
                 => domain_call.result = Err("InvalidEvaluationDomainSize")
           /\ domain_call.result.tag = "Ok" => well_formed_domain(domain_call.result.domain)

\* ------------------------------------------------------------------------
\* Properties of the transcript
\* ------------------------------------------------------------------------

\* the requests of a log of calls, in order
requests_of(log) == [k \in 1 .. Len(log) |-> log[k].request]

RECURSIVE operations_of(_)
\* the operations on merlin's transcript the claim ascribes to a log of
\* calls: an append for append_element; for squeeze_challenge the request
\* for bytes, then the append of the challenge returned under the same label
operations_of(log) ==
    IF Len(log) = 0 THEN << >>
    ELSE LET front == operations_of(SubSeq(log, 1, Len(log) - 1))
             e == log[Len(log)]
         IN  IF e.request.op = "append_element"
             THEN Append(front, [op |-> "append", label |-> e.request.label,
                                 data |-> <<e.request.value>>])
             ELSE front \o << [op |-> "challenge", label |-> e.request.label, data |-> << >>],
                              [op |-> "append", label |-> e.request.label,
                               data |-> <<e.challenge>>] >>

\* the two logs hold the same operations under the same labels up to call
\* k, with a different appended value in at least one of them
differ_in_a_value_before(k) ==
    LET la == transcripts.a.log
        lb == transcripts.b.log
    IN  /\ \A j \in 1 .. k :
              la[j].request.op = lb[j].request.op /\ la[j].request.label = lb[j].request.label
        /\ \E j \in 1 .. k - 1 : la[j].request.value # lb[j].request.value

\* C22: the transcript. Two transcripts that undergo the same sequence of
\* append_element and squeeze_challenge operations return equal challenges
\* at every squeeze; each squeeze_challenge appends the challenge it derived
\* under the same label before it returns; and a squeeze that follows a
\* different appended value draws different bytes.
TranscriptLockStep ==
    pc = "transcripts" =>
        /\ requests_of(transcripts.a.log) = requests_of(transcripts.b.log)
               => transcripts.a.log = transcripts.b.log
        /\ \A side \in {"a", "b"} :
               transcripts[side].transcript.ops = operations_of(transcripts[side].log)
        /\ \A k \in 1 .. min(Len(transcripts.a.log), Len(transcripts.b.log)) :
               /\ transcripts.a.log[k].request.op = "squeeze_challenge"
               /\ differ_in_a_value_before(k)
               => transcripts.a.log[k].bytes # transcripts.b.log[k].bytes

TranscriptLockStepWitness ==
    /\ pc = "transcripts"
    /\ Len(transcripts.a.log) = 3
    /\ requests_of(transcripts.a.log) = requests_of(transcripts.b.log)
    /\ transcripts.a.log[1].request.op = "squeeze_challenge"
    /\ transcripts.a.log[2].request.op = "append_element"
    /\ transcripts.a.log[3].request.op = "squeeze_challenge"
    /\ transcripts.a.log[3].challenge # transcripts.a.log[1].challenge

\* ------------------------------------------------------------------------
\* Properties of the proof's fields
\* ------------------------------------------------------------------------

\* C23: the fields verify does not read. verify's result, its transcript and
\* its challenges are the same for two proofs that differ only in
\* pl_at_delta, pr_at_delta and pm_at_delta.
FieldsIgnored == [][pc = "verified" /\ pc' = "reverified" => verified' = verified]_vars

FieldsIgnoredWitness ==
    /\ pc = "reverified"
    /\ handed.pl_at_delta # proved.proof.pl_at_delta
    /\ handed.pm_at_delta # proved.proof.pm_at_delta
    /\ verified.result = "Ok"

\* ------------------------------------------------------------------------
\* Properties of create_sub_domain
\* ------------------------------------------------------------------------

\* the errors the claim allows create_sub_domain for an order and a segment
\* size: where both of its error clauses apply, either error
sub_domain_errors(original_domain, order, segment_size) ==
    (IF segment_size = 0 \/ segment_size > original_domain.size
     THEN {"InvalidSegmentSize"} ELSE {})
    \cup (IF ~is_power_of_two(order) /\ segment_size > 1
          THEN {"InvalidEvaluationDomainSize"} ELSE {})

\* C24: create_sub_domain. A domain it returns for 1 < segment_size <
\* |original| has size order and as generator the original domain's element
\* at index segment_size, of order exactly `order`; segment_size = 0 or
\* segment_size > |original| is InvalidSegmentSize, and an order that is not
\* a power of two, with segment_size > 1, is InvalidEvaluationDomainSize.
SubDomainWellFormed ==
    pc = "sub_domain" /\ domain_call.op = "create_sub_domain"
        => LET original_domain == domain_call.original_domain
               order == domain_call.order
               segment_size == domain_call.segment_size
               result == domain_call.result
           IN  /\ sub_domain_errors(original_domain, order, segment_size) # {}
                    => /\ result.tag = "Err"
                       /\ result.err \in sub_domain_errors(original_domain, order,
                                                           segment_size)
               /\ result.tag = "Ok" /\ 1 < segment_size
                     /\ segment_size < original_domain.size
                    => /\ result.domain.size = order
                       /\ result.domain.group_gen = element(original_domain, segment_size)
                       /\ pow(result.domain.group_gen, order) = 1
                       /\ \A k \in 1 .. order - 1 : pow(result.domain.group_gen, k) # 1

\* ------------------------------------------------------------------------
\* Properties of powers_of_scalars
\* ------------------------------------------------------------------------

\* C25: powers_of_scalars. It returns exactly `size` elements, the k-th of
\* them s^k for 0 <= k < size, in increasing k, for every size (0, below one
\* chunk, a multiple of the chunk size or not), in whichever order the
\* chunks were computed.
PowersInOrder ==
    pc = "powers" /\ kzg.op = "powers_of_scalars"
        => /\ Len(kzg.result) = kzg.size
           /\ \A k \in 0 .. kzg.size - 1 : kzg.result[k + 1] = pow(kzg.s, k)

PowersInOrderWitness ==
    /\ pc = "powers"
    /\ kzg.op = "powers_of_scalars"
    /\ kzg.size = 2 * CHUNK_SIZE + 1
    /\ kzg.completed = <<2, 0, 1>>
    /\ kzg.s = 3

====
